---- MODULE Spec2Model ----
(***************************************************************************)
(* State-machine model of the Terraform plugin helpers of garden-service:  *)
(*   src/garden-service/src/plugins/terraform/common.ts                    *)
(*     prepareVariables, tfValidate, tfValidationError, getTfOutputs,      *)
(*     getStackStatus (Spec), applyStack (SpecApply)                       *)
(*   src/garden-service/src/plugins/terraform/commands.ts                  *)
(*     the passthrough commands and findModule (SpecCommands)              *)
(*   src/unnamed/part_000                                                  *)
(*     scanDirectory (SpecScan)                                            *)
(* Under these, one call is in flight at a time; the variable files       *)
(* written under the stack roots persist from call to call.  Two calls     *)
(* that overlap are modelled by SpecConcurrent, two calls made one after   *)
(* the other, round by round, by SpecSerial.                               *)
(* Every `await` of the source is one step of the model.                   *)
(***************************************************************************)
EXTENDS Integers, Sequences, FiniteSets, TLC

VARIABLES
    fs,         \* the filesystem: path -> file content, for the files that exist
    op,         \* the exported function the caller invoked
    params,     \* its arguments
    pc,         \* where the call stands (the await it is about to make)
    args,       \* tfValidate's local `args` (common.ts:40)
    res,        \* tfValidate's local `res` (common.ts:43)
    retryRes,   \* tfValidate's local `retryRes` (common.ts:58)
    plan,       \* getStackStatus' local `plan` (common.ts:122)
    outRes,     \* getTfOutputs' local `res` (common.ts:74)
    logEntry,   \* status of getStackStatus' `logEntry` (common.ts:120)
    warnings,   \* messages passed to logEntry.warn (common.ts:155)
    cmds,       \* the external tool invocations of this call, in start order
    results,    \* how each finished invocation ended, in the same order
    writes,     \* the writeFile calls of this call, in order
    proc,       \* the child process applyStack spawned and what it has emitted
    apply,      \* applyStack's buffers, line splitter and status line (common.ts:184-188)
    calls,      \* the calls an orchestrator runs side by side, by call id
    lastWriter, \* for each variable file, the call that wrote it last
    scan,       \* a directory scan: the walker, the generator and its consumer
    outcome     \* how the call settled: pending, return value or thrown error

vars == <<fs, op, params, pc, args, res, retryRes, plan, outRes, logEntry,
          warnings, cmds, results, writes, proc, apply, calls, lastWriter, scan,
          outcome>>

(***************************************************************************)
(* JavaScript values.  A value carries its runtime type, so that `===`     *)
(* (equal type and equal value) and JSON encoding can tell the boolean     *)
(* false from the string "false" and the number 1 from the string "1".     *)
(***************************************************************************)
JsStr(s) == [type |-> "string", v |-> s]
JsNum(s) == [type |-> "number", v |-> s]
JsTrue == [type |-> "boolean", v |-> "true"]
JsFalse == [type |-> "boolean", v |-> "false"]
JsNull == [type |-> "null", v |-> "null"]
JsUndefined == [type |-> "undefined", v |-> "undefined"]

StrictEq(a, b) == a.type = b.type /\ a.v = b.v

\* An object is the sequence of its own enumerable entries, in insertion order.
Entry(k, v) == [k |-> k, v |-> v]

\* A `variables` argument: an object, or absent (undefined).
Obj(es) == [defined |-> TRUE, entries |-> es]
Absent == [defined |-> FALSE, entries |-> <<>>]

\* `variables || {}` (common.ts:231)
OrEmptyObject(variables) ==
    IF variables.defined THEN variables.entries ELSE <<>>

(***************************************************************************)
(* JSON.stringify of an object of primitives, as a sequence of lexical     *)
(* tokens: strings are quoted, numbers, booleans and null are bare.        *)
(***************************************************************************)
JsonValue(v) ==
    IF v.type = "string" THEN <<"\"", v.v, "\"">> ELSE <<v.v>>

RECURSIVE JsonMembers(_)
JsonMembers(es) ==
    IF es = <<>> THEN <<>>
    ELSE LET e == Head(es)
             m == <<"\"", e.k, "\"", ":">> \o JsonValue(e.v)
         IN  IF Tail(es) = <<>> THEN m ELSE m \o <<",">> \o JsonMembers(Tail(es))

JSONstringify(es) == <<"{">> \o JsonMembers(es) \o <<"}">>

(***************************************************************************)
(* Inputs.                                                                 *)
(***************************************************************************)
\* Stack roots, as path segments.
Roots == { <<"project", "a">>, <<"project", "b">> }

VarMaps ==
    { Absent,
      Obj(<<>>),
      Obj(<<Entry("region", JsStr("1"))>>),
      Obj(<<Entry("region", JsNum("1")), Entry("ha", JsTrue)>>) }

(***************************************************************************)
(* prepareVariables (common.ts:230-239).                                   *)
(***************************************************************************)
VarFileName == "garden.tfvars.json"

\* Mutant: the file lands in the process's own directory, whatever the root.
resolve_IgnoresDir(targetDir, name) == <<name>>

\* path.resolve(targetDir, name) for an absolute targetDir
resolve(targetDir, name) == targetDir \o <<name>>

\* Mutant: only an absent map is taken for "no variables".
prepareVariables_AbsentOnly(targetDir, variables) ==
    IF ~variables.defined
    THEN [ret |-> <<>>, writes |-> <<>>]
    ELSE LET path == resolve(targetDir, VarFileName)
         IN  [ret |-> <<"-var-file", path>>,
              writes |-> << [path |-> path,
                             data |-> JSONstringify(variables.entries)] >>]

\* Mutant: the file is written whether or not there are variables.
prepareVariables_AlwaysWrites(targetDir, variables) ==
    LET path == resolve(targetDir, VarFileName)
    IN  [ret |-> IF Len(OrEmptyObject(variables)) = 0 THEN <<>> ELSE <<"-var-file", path>>,
         writes |-> << [path |-> path,
                        data |-> JSONstringify(OrEmptyObject(variables))] >>]

\* The returned argument list and the writeFile calls made.
prepareVariables(targetDir, variables) ==
    IF Len(OrEmptyObject(variables)) = 0
    THEN [ret |-> <<>>, writes |-> <<>>]
    ELSE LET path == resolve(targetDir, VarFileName)
         IN  [ret |-> <<"-var-file", path>>,
              writes |-> << [path |-> path,
                             data |-> JSONstringify(variables.entries)] >>]

\* Mutant: a file that exists is left as it is.
writeFile_KeepsExisting(f, w) ==
    [p \in DOMAIN f \cup {w.path} |-> IF p \in DOMAIN f THEN f[p] ELSE w.data]

\* fs-extra writeFile: creates or replaces the whole file.
writeFile(f, w) ==
    [p \in DOMAIN f \cup {w.path} |-> IF p = w.path THEN w.data ELSE f[p]]

RECURSIVE ApplyWrites(_, _)
ApplyWrites(f, ws) ==
    IF ws = <<>> THEN f ELSE ApplyWrites(writeFile(f, Head(ws)), Tail(ws))

(***************************************************************************)
(* Local variables before they are assigned, and the settled outcomes.     *)
(***************************************************************************)
NoResult == [valid |-> JsUndefined, diagnostics |-> <<>>]
NoPlan == [ran |-> FALSE, exitCode |-> 0, stdout |-> "", stderr |-> ""]
NoOutRes == [decoded |-> FALSE, body |-> <<>>]
NoParams == [root |-> <<>>, variables |-> Absent, autoApply |-> FALSE,
             applyCommand |-> ""]
\* No child process: applyStack has not spawned one.
NoProc ==
    [spawned |-> FALSE, hasStdout |-> FALSE, hasStderr |-> FALSE,
     stdoutEnded |-> FALSE, stderrEnded |-> FALSE,
     errored |-> FALSE, error |-> JsUndefined,
     closed |-> FALSE, code |-> JsUndefined,
     emitted |-> [stdout |-> <<>>, stderr |-> <<>>]]

\* applyStack's locals before it has created them.
NoApply ==
    [stdout |-> <<>>, stderr |-> <<>>,
     logStream |-> [piped |-> {}, ended |-> FALSE, last |-> <<>>],
     statusLine |-> <<>>]

\* The orchestrator runs nothing side by side.
NoCalls == << >>

\* No directory scan has been asked for.
NoScan == [started |-> FALSE]

Pending == [kind |-> "pending"]
Returned(v) == [kind |-> "return", value |-> v]
Thrown(e) == [kind |-> "throw", error |-> e]

Init ==
    /\ fs = << >>
    /\ op = "none"
    /\ params = NoParams
    /\ pc = "idle"
    /\ args = <<>>
    /\ res = NoResult
    /\ retryRes = NoResult
    /\ plan = NoPlan
    /\ outRes = NoOutRes
    /\ logEntry = "none"
    /\ warnings = <<>>
    /\ cmds = <<>>
    /\ results = <<>>
    /\ writes = <<>>
    /\ proc = NoProc
    /\ apply = NoApply
    /\ calls = NoCalls
    /\ lastWriter = << >>
    /\ scan = NoScan
    /\ outcome = Pending

\* A new call starts when no call is in flight; the files stay.
Begin(o, p, l) ==
    /\ pc = "idle"
    /\ op' = o
    /\ params' = p
    /\ pc' = l
    /\ args' = <<>>
    /\ res' = NoResult
    /\ retryRes' = NoResult
    /\ plan' = NoPlan
    /\ outRes' = NoOutRes
    /\ logEntry' = "none"
    /\ warnings' = <<>>
    /\ cmds' = <<>>
    /\ results' = <<>>
    /\ writes' = <<>>
    /\ proc' = NoProc
    /\ apply' = NoApply
    /\ outcome' = Pending
    /\ UNCHANGED <<fs, calls, lastWriter, scan>>

\* The caller has taken the result of the settled call: nothing of the call
\* remains but the files it wrote.
Settle ==
    /\ pc = "done"
    /\ op' = "none"
    /\ params' = NoParams
    /\ pc' = "idle"
    /\ args' = <<>>
    /\ res' = NoResult
    /\ retryRes' = NoResult
    /\ plan' = NoPlan
    /\ outRes' = NoOutRes
    /\ logEntry' = "none"
    /\ warnings' = <<>>
    /\ cmds' = <<>>
    /\ results' = <<>>
    /\ writes' = <<>>
    /\ proc' = NoProc
    /\ apply' = NoApply
    /\ outcome' = Pending
    /\ UNCHANGED <<fs, calls, lastWriter, scan>>

CallPrepareVariables(root, variables) ==
    Begin("prepareVariables",
          [NoParams EXCEPT !.root = root, !.variables = variables],
          "prepareVariables")

\* The effect of `await prepareVariables(root, variables)` on the files.
DoPrepare(pv) ==
    /\ fs' = ApplyWrites(fs, pv.writes)
    /\ writes' = writes \o pv.writes

PrepareVariablesDirect ==
    /\ pc = "prepareVariables"
    /\ LET pv == prepareVariables(params.root, params.variables)
       IN  /\ DoPrepare(pv)
           /\ outcome' = Returned(pv.ret)
    /\ pc' = "done"
    /\ UNCHANGED <<scan, calls, lastWriter, proc, apply, op, params, args, res, retryRes, plan, outRes, logEntry, warnings, cmds, results>>

(***************************************************************************)
(* The versioned binary runner, terraform(version) of ./cli: exec runs the *)
(* tool and captures its result, json runs it and decodes its stdout.      *)
(* A failed run (non-zero exit) raises unless ignoreError is set; a run    *)
(* that exceeds its timeout raises.                                        *)
(***************************************************************************)
ToolExitCodes == {0, 1}

RunRaises(ignoreError, exitCode, timedOut) ==
    timedOut \/ (~ignoreError /\ exitCode # 0)

RunError(exitCode, timedOut) ==
    [type |-> IF timedOut THEN "TimeoutError" ELSE "ChildProcessError",
     exitCode |-> exitCode]

\* One started process: how it was run, its argument list and working directory.
Cmd(how, a, cwd, ignoreError, timeout) ==
    [how |-> how, args |-> a, cwd |-> cwd, ignoreError |-> ignoreError,
     timeout |-> timeout]

NoTimeout == 0
InitTimeout == 300

\* How a process ended: its exit code, and whether it outran its timeout.
Result(exitCode, timedOut) == [exitCode |-> exitCode, timedOut |-> timedOut]

\* Mutant: validate is run like any other command, a non-zero exit raising.
ValidateIgnoreError_Unset == FALSE

\* `ignoreError: true` of the two validate runs (common.ts:46 and 61)
ValidateIgnoreError == TRUE

(***************************************************************************)
(* What `validate -json` may report.                                       *)
(***************************************************************************)
MaxDiags == 2

Diagnostics ==
    { [severity |-> "error", summary |-> "Module not installed",
       detail |-> JsStr("Run terraform init")],
      [severity |-> "error", summary |-> "Could not satisfy plugin requirements",
       detail |-> JsUndefined],
      [severity |-> "warning", summary |-> "Some other error",
       detail |-> JsStr("")] }

DiagSeqs == UNION { [1..n -> Diagnostics] : n \in 0..MaxDiags }

\* What `validate -json` may print: valid, or invalid with diagnostics; and,
\* with at most one diagnostic, the string "false" that common.ts:64 tests for.
ValidationResults ==
    {[valid |-> JsTrue, diagnostics |-> <<>>]}
    \cup {[valid |-> JsFalse, diagnostics |-> ds] : ds \in DiagSeqs}
    \cup {[valid |-> JsStr("false"), diagnostics |-> ds] :
            ds \in {d \in DiagSeqs : Len(d) <= 1}}

(***************************************************************************)
(* tfValidationError (common.ts:86-91).                                    *)
(***************************************************************************)
\* lodash startCase on the severities terraform reports
startCase(s) ==
    CASE s = "error" -> "Error"
      [] s = "warning" -> "Warning"
      [] OTHER -> s

\* `d.detail || ""`
DetailOrEmpty(d) ==
    IF d.detail.type = "string" /\ d.detail.v # "" THEN d.detail.v ELSE ""

FormatDiagnostic(d) ==
    <<startCase(d.severity), ": ", d.summary, "\n", DetailOrEmpty(d)>>

RECURSIVE JoinLines(_)
JoinLines(es) ==
    IF es = <<>> THEN <<>>
    ELSE IF Tail(es) = <<>> THEN Head(es)
    ELSE Head(es) \o <<"\n">> \o JoinLines(Tail(es))

\* String.prototype.trim at the end of a text: the tokens that are only
\* white space are dropped.
RECURSIVE TrimEnd(_)
TrimEnd(text) ==
    IF text = <<>> THEN <<>>
    ELSE IF text[Len(text)] \in {"", "\n"} THEN TrimEnd(SubSeq(text, 1, Len(text) - 1))
    ELSE text

\* The dedent tag (common.ts:88): the interpolated value is put behind the
\* literal part and the whole is trimmed; the `\n` escapes of the literal
\* part are turned into newlines only after that, so they stay. (No text of
\* the model starts with white space, so no indentation is stripped.)
dedent(literal, value) ==
    IF value = <<>> THEN literal ELSE literal \o TrimEnd(value)

\* Mutant: only the first diagnostic is reported.
tfValidationError_FirstOnly(result) ==
    [type |-> "ConfigurationError",
     message |-> dedent(<<"Failed validating Terraform configuration:", "\n", "\n">>,
                        IF result.diagnostics = <<>> THEN <<>>
                        ELSE FormatDiagnostic(result.diagnostics[1])),
     detail |-> [result |-> result]]

tfValidationError(result) ==
    LET errors == [i \in DOMAIN result.diagnostics |->
                     FormatDiagnostic(result.diagnostics[i])]
    IN  [type |-> "ConfigurationError",
         message |-> dedent(<<"Failed validating Terraform configuration:", "\n", "\n">>,
                            JoinLines(errors)),
         detail |-> [result |-> result]]

(***************************************************************************)
(* tfValidate (common.ts:39-71).                                           *)
(***************************************************************************)
CallTfValidate(root, variables) ==
    Begin("tfValidate",
          [NoParams EXCEPT !.root = root, !.variables = variables],
          "tfValidate.prepare")

\* common.ts:51-53
RecoverableReasons == {"Could not satisfy plugin requirements", "Module not installed"}

\* Mutant: only the first diagnostic is looked at.
NeedsInit_FirstOnly(r) ==
    /\ Len(r.diagnostics) > 0
    /\ r.diagnostics[1].summary \in RecoverableReasons

\* Mutant: any reported diagnostic triggers the recovery.
NeedsInit_AnyDiagnostic(r) == Len(r.diagnostics) > 0

NeedsInit(r) ==
    LET reasons == [i \in DOMAIN r.diagnostics |-> r.diagnostics[i].summary]
    IN  \E i \in DOMAIN reasons : reasons[i] \in RecoverableReasons

\* common.ts:50
FirstInvalid(r) == StrictEq(r.valid, JsFalse)

\* common.ts:64
RetryInvalid(r) == StrictEq(r.valid, JsStr("false"))

\* tfValidate returns: to the caller of the exported function, or into
\* getStackStatus (common.ts:117), where its locals go out of scope.
TfValidateReturns ==
    IF op = "tfValidate"
    THEN /\ pc' = "done"
         /\ outcome' = Returned(JsUndefined)
         /\ UNCHANGED args
    ELSE /\ pc' = "getStackStatus.prepare"
         /\ UNCHANGED outcome
         /\ args' = <<>>

\* Mutant: getStackStatus catches what tfValidate throws and goes on to plan.
TfValidateThrows_Caught(e) ==
    /\ pc' = IF op = "tfValidate" THEN "done" ELSE "getStackStatus.prepare"
    /\ outcome' = IF op = "tfValidate" THEN Thrown(e) ELSE outcome
    /\ args' = IF op = "tfValidate" THEN args ELSE <<>>

\* tfValidate throws; getStackStatus does not catch.
TfValidateThrows(e) ==
    /\ pc' = "done"
    /\ outcome' = Thrown(e)
    /\ args' = IF op = "tfValidate" THEN args ELSE <<>>

\* The locals of tfValidate after the step, which are dropped with its frame.
Local(v) == IF op = "tfValidate" \/ pc' \notin {"done", "getStackStatus.prepare"}
            THEN v ELSE NoResult

\* common.ts:40
TfValidatePrepare ==
    /\ pc = "tfValidate.prepare"
    /\ LET pv == prepareVariables(params.root, params.variables)
       IN  /\ DoPrepare(pv)
           /\ args' = <<"validate", "-json">> \o pv.ret
    /\ pc' = "tfValidate.validate"
    /\ UNCHANGED <<scan, calls, lastWriter, proc, apply, op, params, res, retryRes, plan, outRes, logEntry, warnings, cmds, results, outcome>>

\* common.ts:43-53 and 67-70
TfValidateRun ==
    /\ pc = "tfValidate.validate"
    /\ cmds' = Append(cmds, Cmd("json", args, params.root, ValidateIgnoreError, NoTimeout))
    /\ \E exitCode \in ToolExitCodes, body \in ValidationResults :
         /\ results' = Append(results, Result(exitCode, FALSE))
         /\ IF RunRaises(ValidateIgnoreError, exitCode, FALSE)
            THEN /\ TfValidateThrows(RunError(exitCode, FALSE))
                 /\ res' = NoResult
            ELSE /\ IF FirstInvalid(body)
                    THEN IF NeedsInit(body)
                         THEN pc' = "tfValidate.init" /\ UNCHANGED <<outcome, args>>
                         ELSE TfValidateThrows(tfValidationError(body))
                    ELSE TfValidateReturns
                 /\ res' = Local(body)
    /\ UNCHANGED <<scan, calls, lastWriter, proc, apply, fs, op, params, retryRes, plan, outRes, logEntry, warnings, writes>>

\* Mutant: a failed or overdue init is swallowed and validation re-run.
TfValidateInit_IgnoresFailure ==
    /\ pc = "tfValidate.init"
    /\ cmds' = Append(cmds, Cmd("exec", <<"init">>, params.root, FALSE, InitTimeout))
    /\ \E exitCode \in ToolExitCodes, timedOut \in BOOLEAN :
         results' = Append(results, Result(exitCode, timedOut))
    /\ pc' = "tfValidate.retry"
    /\ UNCHANGED <<scan, calls, lastWriter, proc, apply, fs, op, params, args, res, retryRes, plan, outRes, logEntry,
                   warnings, writes, outcome>>

\* common.ts:55-56
TfValidateInit ==
    /\ pc = "tfValidate.init"
    /\ cmds' = Append(cmds, Cmd("exec", <<"init">>, params.root, FALSE, InitTimeout))
    /\ \E exitCode \in ToolExitCodes, timedOut \in BOOLEAN :
         /\ results' = Append(results, Result(exitCode, timedOut))
         /\ IF RunRaises(FALSE, exitCode, timedOut)
            THEN /\ TfValidateThrows(RunError(exitCode, timedOut))
                 /\ res' = Local(res)
            ELSE /\ pc' = "tfValidate.retry"
                 /\ UNCHANGED <<outcome, args, res>>
    /\ UNCHANGED <<scan, calls, lastWriter, proc, apply, fs, op, params, retryRes, plan, outRes, logEntry, warnings, writes>>

\* common.ts:58-66
TfValidateRetry ==
    /\ pc = "tfValidate.retry"
    /\ cmds' = Append(cmds, Cmd("json", args, params.root, ValidateIgnoreError, NoTimeout))
    /\ \E exitCode \in ToolExitCodes, body \in ValidationResults :
         /\ results' = Append(results, Result(exitCode, FALSE))
         /\ IF RunRaises(ValidateIgnoreError, exitCode, FALSE)
            THEN /\ TfValidateThrows(RunError(exitCode, FALSE))
                 /\ retryRes' = NoResult
            ELSE /\ IF RetryInvalid(body)
                    THEN TfValidateThrows(tfValidationError(body))
                    ELSE TfValidateReturns
                 /\ retryRes' = Local(body)
         /\ res' = Local(res)
    /\ UNCHANGED <<scan, calls, lastWriter, proc, apply, fs, op, params, plan, outRes, logEntry, warnings, writes>>

(***************************************************************************)
(* getTfOutputs (common.ts:73-80).                                         *)
(***************************************************************************)
\* One entry of `terraform output -json`.
OutputEntry(k, sensitive, type, value) ==
    Entry(k, [sensitive |-> sensitive, type |-> type, value |-> value])

OutputBodies ==
    { <<>>,
      <<OutputEntry("x", FALSE, "number", JsNum("1"))>>,
      <<OutputEntry("x", FALSE, "number", JsNum("1")),
        OutputEntry("y", TRUE, "string", JsStr("s"))>> }

NotSensitive(e) == ~e.v.sensitive

\* Mutant: the outputs marked sensitive are left out.
getTfOutputs_DropsSensitive(body) ==
    LET shown == SelectSeq(body, NotSensitive)
    IN  [i \in DOMAIN shown |-> Entry(shown[i].k, shown[i].v.value)]

\* Mutant: the entries are passed on without unwrapping `value`.
getTfOutputs_Raw(body) == body

\* lodash mapValues(res, v => v.value), common.ts:79
getTfOutputs(body) ==
    [i \in DOMAIN body |-> Entry(body[i].k, body[i].v.value)]

(***************************************************************************)
(* getStackStatus (common.ts:109-167).                                     *)
(***************************************************************************)
ApplyCommands == {"apply-root", "apply-module my-module"}

PlanExitCodes == {0, 1, 2, 3, 127}
PlanTexts == {"", "plan output"}

\* common.ts:23-28
noAutoApplyMsg(command) ==
    <<"Terraform stack is not up-to-date and autoApply is not enabled. Please run ",
      "garden plugins terraform ", command,
      " to make sure the stack is in the intended state.">>

StackStatus(ready, outputs) == [ready |-> ready, outputs |-> outputs]

PluginError(p) ==
    [type |-> "PluginError",
     message |-> <<"Unexpected exit code from terraform plan: ", ToString(p.exitCode)>>,
     detail |-> [exitCode |-> p.exitCode, stderr |-> p.stderr, stdout |-> p.stdout]]

\* common.ts:117: the call enters tfValidate
CallGetStackStatus(root, variables, autoApply, applyCommand) ==
    Begin("getStackStatus",
          [root |-> root, variables |-> variables, autoApply |-> autoApply,
           applyCommand |-> applyCommand],
          "tfValidate.prepare")

\* common.ts:120 and 133
GetStackStatusPrepare ==
    /\ pc = "getStackStatus.prepare"
    /\ logEntry' = "active"
    /\ LET pv == prepareVariables(params.root, params.variables)
       IN  /\ DoPrepare(pv)
           /\ args' = <<"plan", "-detailed-exitcode", "-input=false",
                        "-refresh=false", "-lock=false">> \o pv.ret
    /\ pc' = "getStackStatus.plan"
    /\ UNCHANGED <<scan, calls, lastWriter, proc, apply, op, params, res, retryRes, plan, outRes, warnings, cmds, results, outcome>>

\* Mutant: autoApply is consulted for an up-to-date stack as well.
OnUpToDate_WarnsWithoutAutoApply ==
    [pc |-> "getStackStatus.output", logEntry |-> "active",
     warn |-> IF params.autoApply THEN <<>> ELSE <<noAutoApplyMsg(params.applyCommand)>>,
     outcome |-> Pending]

\* What getStackStatus does with the plan result before its next await or its
\* return: the next position, the log entry's status, the warnings emitted
\* and the outcome.
\* common.ts:138-142, up to the await of getTfOutputs
OnUpToDate ==
    [pc |-> "getStackStatus.output", logEntry |-> "active",
     warn |-> <<>>, outcome |-> Pending]

\* Mutant: the error exit code is treated like "no changes".
OnPlanError_FetchesOutputs ==
    [pc |-> "getStackStatus.output", logEntry |-> "active",
     warn |-> <<>>, outcome |-> Pending]

\* Mutant: the error exit code is raised like an unknown one.
OnPlanError_Throws ==
    [pc |-> "done", logEntry |-> "error",
     warn |-> <<>>,
     outcome |-> Thrown([type |-> "PluginError",
                         message |-> <<"Unexpected exit code from terraform plan: ", "1">>,
                         detail |-> [exitCode |-> 1, stderr |-> "", stdout |-> ""]])]

\* common.ts:143-147
OnPlanError ==
    [pc |-> "done", logEntry |-> "error",
     warn |-> <<>>, outcome |-> Returned(StackStatus(FALSE, <<>>))]

\* Mutant: the warning is left out.
OnNotUpToDate_NoWarning(autoApply, applyCommand) ==
    IF autoApply
    THEN [pc |-> "done", logEntry |-> "warn",
          warn |-> <<>>, outcome |-> Returned(StackStatus(FALSE, <<>>))]
    ELSE [pc |-> "getStackStatus.output", logEntry |-> "warn",
          warn |-> <<>>, outcome |-> Pending]

\* Mutant: autoApply is not consulted.
OnNotUpToDate_IgnoresAutoApply(autoApply, applyCommand) ==
    [pc |-> "getStackStatus.output", logEntry |-> "warn",
     warn |-> <<noAutoApplyMsg(applyCommand)>>, outcome |-> Pending]

\* common.ts:148-158, up to the await of getTfOutputs
OnNotUpToDate(autoApply, applyCommand) ==
    IF autoApply
    THEN [pc |-> "done", logEntry |-> "warn",
          warn |-> <<>>, outcome |-> Returned(StackStatus(FALSE, <<>>))]
    ELSE [pc |-> "getStackStatus.output", logEntry |-> "warn",
          warn |-> <<noAutoApplyMsg(applyCommand)>>, outcome |-> Pending]

\* Mutant: an unknown exit code is reported as "not ready".
OnUnexpectedExitCode_NotReady(p) ==
    [pc |-> "done", logEntry |-> "error",
     warn |-> <<>>, outcome |-> Returned(StackStatus(FALSE, <<>>))]

\* common.ts:159-166
OnUnexpectedExitCode(p) ==
    [pc |-> "done", logEntry |-> "error",
     warn |-> <<>>, outcome |-> Thrown(PluginError(p))]

PlanBranch(p, autoApply, applyCommand) ==
    CASE p.exitCode = 0 -> OnUpToDate
      [] p.exitCode = 1 -> OnPlanError
      [] p.exitCode = 2 -> OnNotUpToDate(autoApply, applyCommand)
      [] OTHER -> OnUnexpectedExitCode(p)

\* common.ts:122-136, then the branch on plan.exitCode
GetStackStatusPlan ==
    /\ pc = "getStackStatus.plan"
    /\ cmds' = Append(cmds, Cmd("exec", args, params.root, TRUE, NoTimeout))
    /\ \E exitCode \in PlanExitCodes, out \in PlanTexts, err \in PlanTexts :
         /\ results' = Append(results, Result(exitCode, FALSE))
         /\ LET p == [ran |-> TRUE, exitCode |-> exitCode, stdout |-> out, stderr |-> err]
                b == PlanBranch(p, params.autoApply, params.applyCommand)
            IN  /\ plan' = p
                /\ pc' = b.pc
                /\ logEntry' = b.logEntry
                /\ warnings' = warnings \o b.warn
                /\ outcome' = b.outcome
    /\ UNCHANGED <<scan, calls, lastWriter, proc, apply, fs, op, params, args, res, retryRes, outRes, writes>>

\* Mutant: the outputs are fetched, but `ready` is told from the plan alone.
GetStackStatusOutputs_ReadyFromPlan ==
    /\ pc = "getStackStatus.output"
    /\ cmds' = Append(cmds, Cmd("json", <<"output", "-json">>, params.root, FALSE, NoTimeout))
    /\ \E exitCode \in ToolExitCodes, body \in OutputBodies :
         /\ results' = Append(results, Result(exitCode, FALSE))
         /\ IF RunRaises(FALSE, exitCode, FALSE)
            THEN /\ outcome' = Thrown(RunError(exitCode, FALSE))
                 /\ UNCHANGED <<logEntry, outRes>>
            ELSE /\ outRes' = [decoded |-> TRUE, body |-> body]
                 /\ outcome' = Returned(StackStatus(plan.exitCode = 0, getTfOutputs(body)))
                 /\ logEntry' = IF plan.exitCode = 0 THEN "success" ELSE logEntry
    /\ pc' = "done"
    /\ UNCHANGED <<scan, calls, lastWriter, proc, apply, fs, op, params, args, res, retryRes, plan, warnings, writes>>

\* common.ts:140-142 and 156-157: await getTfOutputs, then return
GetStackStatusOutputs ==
    /\ pc = "getStackStatus.output"
    /\ cmds' = Append(cmds, Cmd("json", <<"output", "-json">>, params.root, FALSE, NoTimeout))
    /\ \E exitCode \in ToolExitCodes, body \in OutputBodies :
         /\ results' = Append(results, Result(exitCode, FALSE))
         /\ IF RunRaises(FALSE, exitCode, FALSE)
            THEN /\ outcome' = Thrown(RunError(exitCode, FALSE))
                 /\ UNCHANGED <<logEntry, outRes>>
            ELSE /\ outRes' = [decoded |-> TRUE, body |-> body]
                 /\ outcome' = Returned(StackStatus(TRUE, getTfOutputs(body)))
                 /\ logEntry' = IF plan.exitCode = 0 THEN "success" ELSE logEntry
    /\ pc' = "done"
    /\ UNCHANGED <<scan, calls, lastWriter, proc, apply, fs, op, params, args, res, retryRes, plan, warnings, writes>>

Next ==
    \/ \E r \in Roots, v \in VarMaps : CallPrepareVariables(r, v)
    \/ \E r \in Roots, v \in VarMaps : CallTfValidate(r, v)
    \/ \E r \in Roots, v \in VarMaps, a \in BOOLEAN, c \in ApplyCommands :
         CallGetStackStatus(r, v, a, c)
    \/ PrepareVariablesDirect
    \/ TfValidatePrepare
    \/ TfValidateRun
    \/ TfValidateInit
    \/ TfValidateRetry
    \/ GetStackStatusPrepare
    \/ GetStackStatusPlan
    \/ GetStackStatusOutputs
    \/ Settle

Spec == Init /\ [][Next]_vars

(***************************************************************************)
(* applyStack (common.ts:169-224): `terraform apply` run as a child        *)
(* process whose stdout and stderr are piped into one line splitter that   *)
(* feeds the status line, and collected in two buffers.  A chunk and a     *)
(* buffer are sequences of characters; each event of the child process or  *)
(* of one of its streams is one step.  One call is followed from the       *)
(* initial state to the close of its child process.                        *)
(***************************************************************************)

\* The most chunks the child writes to one stream.
MaxChunks == 2

\* What the child may write: whole lines and pieces of lines.
StdoutChunks == { <<"a", "\n">>, <<"b">> }
StderrChunks == { <<"x", "\n">>, <<"y">> }

\* The `code` of the close event: an exit code, or null after a signal.
CloseCodes == { JsNum("0"), JsNum("1"), JsNull }

\* The errors the child process may emit as an `error` event.
ProcErrors == { [type |-> "Error", code |-> "ENOENT"],
                [type |-> "Error", code |-> "EACCES"] }

RECURSIVE Concat(_)
Concat(chunks) ==
    IF chunks = <<>> THEN <<>> ELSE Head(chunks) \o Concat(Tail(chunks))

\* split2: the text cut at every newline; `last` is the unfinished rest.
RECURSIVE SplitLines(_, _)
SplitLines(text, line) ==
    IF text = <<>> THEN [lines |-> <<>>, last |-> line]
    ELSE IF Head(text) = "\n"
         THEN LET r == SplitLines(Tail(text), <<>>)
              IN  [lines |-> <<line>> \o r.lines, last |-> r.last]
         ELSE SplitLines(Tail(text), Append(line, Head(text)))

\* common.ts:204-206: the status line shows the line behind an arrow.
RECURSIVE SetState(_)
SetState(lines) ==
    IF lines = <<>> THEN <<>>
    ELSE << <<"→ ">> \o Head(lines) >> \o SetState(Tail(lines))

\* logStream.write(chunk), as a piped source does on `data`.
LogStreamWrite(a, chunk) ==
    LET r == SplitLines(chunk, a.logStream.last)
    IN  [a EXCEPT !.logStream.last = r.last,
                  !.statusLine = @ \o SetState(r.lines)]

\* logStream.end(), as a piped source does on `end` (pipe's default
\* `end: true`): the unfinished rest is flushed as a last line, and on the
\* `finish` that follows every source still piped is unpiped.
LogStreamEnd(a) ==
    [a EXCEPT !.logStream = [piped |-> {}, ended |-> TRUE, last |-> <<>>],
              !.statusLine = @ \o (IF a.logStream.last = <<>> THEN <<>>
                                   ELSE SetState(<<a.logStream.last>>))]

\* common.ts:216-220
RuntimeError(stdout, stderr, code) ==
    [type |-> "RuntimeError",
     message |-> <<"Error when applying Terraform stack:", "\n">> \o stderr,
     detail |-> [stdout |-> stdout, stderr |-> stderr, code |-> code]]

\* Mutant: a later event settles the promise again.
Settled_LastWins(o) == o

\* A promise settles once: resolve and reject of a settled one do nothing.
Settled(o) == IF outcome = Pending THEN o ELSE outcome

CallApplyStack(root, variables) ==
    Begin("applyStack",
          [NoParams EXCEPT !.root = root, !.variables = variables],
          "applyStack.prepare")

\* common.ts:180
ApplyStackPrepare ==
    /\ pc = "applyStack.prepare"
    /\ LET pv == prepareVariables(params.root, params.variables)
       IN  /\ DoPrepare(pv)
           /\ args' = <<"apply", "-auto-approve", "-input=false">> \o pv.ret
    /\ pc' = "applyStack.spawn"
    /\ UNCHANGED <<scan, calls, lastWriter, op, params, res, retryRes, plan, outRes, logEntry, warnings,
                   cmds, results, proc, apply, outcome>>

\* Mutant: the call returns as soon as the process is started.
ApplyStackSpawn_ReturnsAtOnce ==
    /\ pc = "applyStack.spawn"
    /\ cmds' = Append(cmds, Cmd("spawn", args, params.root, FALSE, NoTimeout))
    /\ \E hasStdout \in BOOLEAN, hasStderr \in BOOLEAN :
         /\ proc' = [NoProc EXCEPT !.spawned = TRUE,
                                   !.hasStdout = hasStdout,
                                   !.hasStderr = hasStderr,
                                   !.stdoutEnded = ~hasStdout,
                                   !.stderrEnded = ~hasStderr]
         /\ apply' = [NoApply EXCEPT !.logStream.piped =
                          {s \in {"stdout", "stderr"} :
                              IF s = "stdout" THEN hasStdout ELSE hasStderr}]
    /\ pc' = "done"
    /\ outcome' = Returned(JsUndefined)
    /\ UNCHANGED <<scan, calls, lastWriter, fs, op, params, args, res, retryRes, plan, outRes,
                   logEntry, warnings, results, writes>>

\* common.ts:182-223: the process is started and, in the same turn, the
\* streams it has are piped and listened to and the promise is created.
ApplyStackSpawn ==
    /\ pc = "applyStack.spawn"
    /\ cmds' = Append(cmds, Cmd("spawn", args, params.root, FALSE, NoTimeout))
    /\ \E hasStdout \in BOOLEAN, hasStderr \in BOOLEAN :
         /\ proc' = [NoProc EXCEPT !.spawned = TRUE,
                                   !.hasStdout = hasStdout,
                                   !.hasStderr = hasStderr,
                                   !.stdoutEnded = ~hasStdout,
                                   !.stderrEnded = ~hasStderr]
         /\ apply' = [NoApply EXCEPT !.logStream.piped =
                          {s \in {"stdout", "stderr"} :
                              IF s = "stdout" THEN hasStdout ELSE hasStderr}]
    /\ pc' = "applyStack.wait"
    /\ UNCHANGED <<scan, calls, lastWriter, fs, op, params, args, res, retryRes, plan, outRes, logEntry,
                   warnings, results, writes, outcome>>

Running == proc.spawned /\ ~proc.closed

\* common.ts:191-194: a chunk on stdout goes to the splitter, while stdout is
\* piped to it, and to the stdout buffer.
ProcStdoutData ==
    /\ Running
    /\ ~proc.stdoutEnded
    /\ Len(proc.emitted.stdout) < MaxChunks
    /\ \E d \in StdoutChunks :
         /\ proc' = [proc EXCEPT !.emitted.stdout = Append(@, d)]
         /\ apply' = LET a == IF "stdout" \in apply.logStream.piped
                              THEN LogStreamWrite(apply, d) ELSE apply
                     IN  [a EXCEPT !.stdout = @ \o d]
    /\ UNCHANGED <<scan, calls, lastWriter, fs, op, params, pc, args, res, retryRes, plan, outRes, logEntry,
                   warnings, cmds, results, writes, outcome>>

\* Mutant: what comes on stderr is collected in the stdout buffer.
ProcStderrData_IntoStdout ==
    /\ Running
    /\ ~proc.stderrEnded
    /\ Len(proc.emitted.stderr) < MaxChunks
    /\ \E d \in StderrChunks :
         /\ proc' = [proc EXCEPT !.emitted.stderr = Append(@, d)]
         /\ apply' = LET a == IF "stderr" \in apply.logStream.piped
                              THEN LogStreamWrite(apply, d) ELSE apply
                     IN  [a EXCEPT !.stdout = @ \o d]
    /\ UNCHANGED <<scan, calls, lastWriter, fs, op, params, pc, args, res, retryRes, plan, outRes, logEntry,
                   warnings, cmds, results, writes, outcome>>

\* common.ts:198-201
ProcStderrData ==
    /\ Running
    /\ ~proc.stderrEnded
    /\ Len(proc.emitted.stderr) < MaxChunks
    /\ \E d \in StderrChunks :
         /\ proc' = [proc EXCEPT !.emitted.stderr = Append(@, d)]
         /\ apply' = LET a == IF "stderr" \in apply.logStream.piped
                              THEN LogStreamWrite(apply, d) ELSE apply
                     IN  [a EXCEPT !.stderr = @ \o d]
    /\ UNCHANGED <<scan, calls, lastWriter, fs, op, params, pc, args, res, retryRes, plan, outRes, logEntry,
                   warnings, cmds, results, writes, outcome>>

\* common.ts:191: stdout ends, which ends the splitter it is piped to.
ProcStdoutEnd ==
    /\ Running
    /\ ~proc.stdoutEnded
    /\ proc' = [proc EXCEPT !.stdoutEnded = TRUE]
    /\ apply' = IF "stdout" \in apply.logStream.piped
                THEN LogStreamEnd(apply) ELSE apply
    /\ UNCHANGED <<scan, calls, lastWriter, fs, op, params, pc, args, res, retryRes, plan, outRes, logEntry,
                   warnings, cmds, results, writes, outcome>>

\* common.ts:198
ProcStderrEnd ==
    /\ Running
    /\ ~proc.stderrEnded
    /\ proc' = [proc EXCEPT !.stderrEnded = TRUE]
    /\ apply' = IF "stderr" \in apply.logStream.piped
                THEN LogStreamEnd(apply) ELSE apply
    /\ UNCHANGED <<scan, calls, lastWriter, fs, op, params, pc, args, res, retryRes, plan, outRes, logEntry,
                   warnings, cmds, results, writes, outcome>>

\* Mutant: the error of the process is wrapped like a failed exit.
OnError_Wrapped(e) ==
    Thrown(RuntimeError(apply.stdout, apply.stderr, JsNull))

\* common.ts:209: `proc.on("error", reject)`.
OnError(e) == Thrown(e)

\* common.ts:209: the child process emits `error`.
ProcError ==
    /\ Running
    /\ ~proc.errored
    /\ \E e \in ProcErrors :
         /\ proc' = [proc EXCEPT !.errored = TRUE, !.error = e]
         /\ outcome' = Settled(OnError(e))
    /\ pc' = "done"
    /\ UNCHANGED <<scan, calls, lastWriter, fs, op, params, args, res, retryRes, plan, outRes, logEntry,
                   warnings, cmds, results, writes, apply>>

\* Mutant: any exit code of the child resolves the promise.
OnClose_AlwaysResolves(code) == Returned(JsUndefined)

\* common.ts:211-221
OnClose(code) ==
    IF StrictEq(code, JsNum("0"))
    THEN Returned(JsUndefined)
    ELSE Thrown(RuntimeError(apply.stdout, apply.stderr, code))

\* common.ts:210: the child has exited and its streams are closed.
ProcClose ==
    /\ Running
    /\ proc.stdoutEnded /\ proc.stderrEnded
    /\ \E code \in CloseCodes :
         /\ proc' = [proc EXCEPT !.closed = TRUE, !.code = code]
         /\ outcome' = Settled(OnClose(code))
    /\ pc' = "done"
    /\ UNCHANGED <<scan, calls, lastWriter, fs, op, params, args, res, retryRes, plan, outRes, logEntry,
                   warnings, cmds, results, writes, apply>>

NextApply ==
    \/ \E r \in Roots, v \in VarMaps : CallApplyStack(r, v)
    \/ ApplyStackPrepare
    \/ ApplyStackSpawn
    \/ ProcStdoutData
    \/ ProcStderrData
    \/ ProcStdoutEnd
    \/ ProcStderrEnd
    \/ ProcError
    \/ ProcClose

SpecApply == Init /\ [][NextApply]_vars

(***************************************************************************)
(* The passthrough commands (commands.ts): `apply` and `plan`, each for    *)
(* the stack of the project root and for the stack of a named module,      *)
(* with the operator's trailing arguments.                                 *)
(***************************************************************************)

\* commands.ts:20
commandsToWrap == <<"apply", "plan">>

ProjectRoot == <<"project">>

\* provider.config.initRoot: not configured, or a directory of the project.
InitRoots == { JsUndefined, JsStr("tf"), JsStr("infra") }

\* The positional arguments the operator may give.
ArgLists ==
    { <<>>, <<"">>, <<"-lock=false">>, <<"net">>, <<"db", "-destroy">>,
      <<"net", "-target=x", "-lock=false">>, <<"web">>, <<"nope", "-x">> }

\* The resolved modules of the project: two terraform modules with their
\* own roots and variables, and one module of another type.
Modules ==
    << [name |-> "net", path |-> <<"project", "net">>,
        compatibleTypes |-> <<"terraform">>,
        spec |-> [root |-> JsStr("."),
                  variables |-> Obj(<<Entry("cidr", JsStr("10.0.0.0/8"))>>)]],
       [name |-> "db", path |-> <<"project", "db">>,
        compatibleTypes |-> <<"terraform", "persistent">>,
        spec |-> [root |-> JsStr("tf"), variables |-> Absent]],
       [name |-> "web", path |-> <<"project", "web">>,
        compatibleTypes |-> <<"container">>,
        spec |-> [root |-> JsUndefined, variables |-> Absent]] >>

\* What JavaScript's `!` takes for false.
Falsy(v) == v \in {JsUndefined, JsNull, JsFalse, JsStr(""), JsNum("0")}

\* path.join(dir, rel) for a one-segment rel; "." names dir itself.
join(dir, rel) == IF rel.v = "." THEN dir ELSE dir \o <<rel.v>>

\* args[0]
FirstArg(a) == IF a = <<>> THEN JsUndefined ELSE JsStr(a[1])

\* args.slice(1)
Slice1(a) == IF a = <<>> THEN <<>> ELSE Tail(a)

\* findByName(modules, name): the first module of that name, if any.
findByName(modules, name) ==
    LET hits == {i \in DOMAIN modules : modules[i].name = name.v}
    IN  IF hits = {} THEN [found |-> FALSE]
        ELSE [found |-> TRUE,
              module |-> modules[CHOOSE i \in hits : \A j \in hits : i <= j]]

Includes(seq, x) == \E i \in DOMAIN seq : seq[i] = x

ParameterError(message) == [type |-> "ParameterError", message |-> message]

ConfigurationError(message) == [type |-> "ConfigurationError", message |-> message]

\* Mutant: any module that is found will do, whatever its type.
findModule_AnyType(modules, name) ==
    IF Falsy(name)
    THEN Thrown(ParameterError("The first command argument must be a module name."))
    ELSE LET m == findByName(modules, name)
         IN  IF ~m.found
             THEN Thrown(ParameterError("Could not find module"))
             ELSE Returned(m.module)

\* commands.ts:76-96
findModule(modules, name) ==
    IF Falsy(name)
    THEN Thrown(ParameterError("The first command argument must be a module name."))
    ELSE LET m == findByName(modules, name)
         IN  IF ~m.found
             THEN Thrown(ParameterError("Could not find module"))
             ELSE IF ~Includes(m.module.compatibleTypes, "terraform")
                  THEN Thrown(ParameterError("is not a terraform module"))
                  ELSE Returned(m.module)

\* Mutant: a missing initRoot goes unnoticed.
MissingInitRoot_Unchecked(config) == FALSE

\* commands.ts:37: `!provider.config.initRoot`
MissingInitRoot(config) == Falsy(config.initRoot)

\* Mutant: the module name is forwarded to the tool with the rest.
ModuleForwardedArgs_All(a) == a

\* commands.ts:68: `...args.slice(1)`
ModuleForwardedArgs(a) == Slice1(a)

CallRootCommand(commandName, a, config) ==
    Begin(commandName \o "-root",
          [commandName |-> commandName, args |-> a, projectRoot |-> ProjectRoot,
           config |-> config],
          "root.prepare")

CallModuleCommand(commandName, a) ==
    Begin(commandName \o "-module",
          [commandName |-> commandName, args |-> a, modules |-> Modules],
          "module.prepare")

IsRootCommand == pc # "idle" /\ op \in {"apply-root", "plan-root"}

IsModuleCommand == pc # "idle" /\ op \in {"apply-module", "plan-module"}

\* commands.ts:43
tfRoot == join(params.projectRoot, params.config.initRoot)

\* commands.ts:35-45
RootCommandPrepare ==
    /\ pc = "root.prepare"
    /\ IF MissingInitRoot(params.config)
       THEN /\ outcome' = Thrown(ConfigurationError(
                              "terraform provider does not have an initRoot configured"))
            /\ pc' = "done"
            /\ UNCHANGED <<fs, writes, args>>
       ELSE /\ LET pv == prepareVariables(tfRoot, params.config.variables)
               IN  /\ DoPrepare(pv)
                   /\ args' = <<params.commandName>> \o pv.ret \o params.args
            /\ pc' = "root.spawnAndWait"
            /\ UNCHANGED outcome
    /\ UNCHANGED <<scan, calls, lastWriter, op, params, res, retryRes, plan, outRes, logEntry, warnings,
                   cmds, results, proc, apply>>

\* commands.ts:46-48
RootCommandRun ==
    /\ pc = "root.spawnAndWait"
    /\ cmds' = Append(cmds, Cmd("spawnAndWait", args, tfRoot, FALSE, NoTimeout))
    /\ \E exitCode \in ToolExitCodes :
         /\ results' = Append(results, Result(exitCode, FALSE))
         /\ outcome' = IF RunRaises(FALSE, exitCode, FALSE)
                       THEN Thrown(RunError(exitCode, FALSE))
                       ELSE Returned([result |-> <<>>])
    /\ pc' = "done"
    /\ UNCHANGED <<scan, calls, lastWriter, fs, op, params, args, res, retryRes, plan, outRes, logEntry,
                   warnings, writes, proc, apply>>

\* commands.ts:65
module == findModule(params.modules, FirstArg(params.args))

\* commands.ts:67
moduleRoot == join(module.value.path, module.value.spec.root)

\* commands.ts:65-68
ModuleCommandPrepare ==
    /\ pc = "module.prepare"
    /\ IF module.kind = "throw"
       THEN /\ outcome' = module
            /\ pc' = "done"
            /\ UNCHANGED <<fs, writes, args>>
       ELSE /\ LET pv == prepareVariables(moduleRoot, module.value.spec.variables)
               IN  /\ DoPrepare(pv)
                   /\ args' = <<params.commandName>> \o pv.ret
                                \o ModuleForwardedArgs(params.args)
            /\ pc' = "module.spawnAndWait"
            /\ UNCHANGED outcome
    /\ UNCHANGED <<scan, calls, lastWriter, op, params, res, retryRes, plan, outRes, logEntry, warnings,
                   cmds, results, proc, apply>>

\* commands.ts:69-71
ModuleCommandRun ==
    /\ pc = "module.spawnAndWait"
    /\ cmds' = Append(cmds, Cmd("spawnAndWait", args, moduleRoot, FALSE, NoTimeout))
    /\ \E exitCode \in ToolExitCodes :
         /\ results' = Append(results, Result(exitCode, FALSE))
         /\ outcome' = IF RunRaises(FALSE, exitCode, FALSE)
                       THEN Thrown(RunError(exitCode, FALSE))
                       ELSE Returned([result |-> <<>>])
    /\ pc' = "done"
    /\ UNCHANGED <<scan, calls, lastWriter, fs, op, params, args, res, retryRes, plan, outRes, logEntry,
                   warnings, writes, proc, apply>>

NextCommands ==
    \/ \E i \in DOMAIN commandsToWrap, a \in ArgLists,
          r \in InitRoots, v \in VarMaps :
         CallRootCommand(commandsToWrap[i], a, [initRoot |-> r, variables |-> v])
    \/ \E i \in DOMAIN commandsToWrap, a \in ArgLists :
         CallModuleCommand(commandsToWrap[i], a)
    \/ RootCommandPrepare
    \/ RootCommandRun
    \/ ModuleCommandPrepare
    \/ ModuleCommandRun
    \/ Settle

SpecCommands == Init /\ [][NextCommands]_vars

(***************************************************************************)
(* Calls running side by side.  The plugin keeps no lock and no state of   *)
(* its own between calls (common.ts has no module-level variable); what    *)
(* two calls share is the file system.  Each call is a row of rounds, a    *)
(* round being `await prepareVariables(...)` followed by one process of    *)
(* the tool, which reads the variable file it was pointed at some time     *)
(* between its start and its exit.  Every await is a point where the other *)
(* call may run.                                                           *)
(***************************************************************************)
CallIds == {"A", "B"}

ConcurrentOps == {"getStackStatus", "applyStack", "apply-root"}

\* The commands of a call that are given the variable file, without it.
Rounds(o) ==
    CASE o = "getStackStatus" ->
           << <<"validate", "-json">>,
              <<"plan", "-detailed-exitcode", "-input=false", "-refresh=false",
                "-lock=false">> >>
      [] o = "applyStack" -> << <<"apply", "-auto-approve", "-input=false">> >>
      [] o = "apply-root" -> << <<"apply">> >>

NotRead == [done |-> FALSE, content |-> <<>>, from |-> ""]

callVarsButScan == <<op, params, pc, args, res, retryRes, plan, outRes, logEntry,
                     warnings, cmds, results, writes, proc, apply, outcome>>

callVars == <<callVarsButScan, scan>>

\* The orchestrator starts a call.
ConcStart(c, o, dir, variables) ==
    /\ c \notin DOMAIN calls
    /\ calls' = calls @@ (c :> [op |-> o, root |-> dir, variables |-> variables,
                                pc |-> "prepare", round |-> 1, args |-> <<>>,
                                varFile |-> <<>>, wrote |-> {}, log |-> <<>>])
    /\ UNCHANGED <<fs, lastWriter, callVars>>

\* Mutant: the write of the variable file is not awaited, and has not
\* happened when the call goes on.
ConcPrepare_WriteNotAwaited(c) ==
    /\ c \in DOMAIN calls
    /\ calls[c].pc = "prepare"
    /\ LET pv == prepareVariables(calls[c].root, calls[c].variables)
       IN  calls' = [calls EXCEPT
                       ![c].args = Rounds(calls[c].op)[calls[c].round] \o pv.ret,
                       ![c].varFile = IF pv.ret = <<>> THEN <<>> ELSE pv.ret[2],
                       ![c].pc = "spawn"]
    /\ UNCHANGED <<fs, lastWriter, callVars>>

\* common.ts:40, 133, 180 and commands.ts:45: `await prepareVariables(...)`.
ConcPrepare(c) ==
    /\ c \in DOMAIN calls
    /\ calls[c].pc = "prepare"
    /\ LET pv == prepareVariables(calls[c].root, calls[c].variables)
           paths == {pv.writes[i].path : i \in DOMAIN pv.writes}
       IN  /\ fs' = ApplyWrites(fs, pv.writes)
           /\ lastWriter' = [p \in DOMAIN lastWriter \cup paths |->
                               IF p \in paths THEN c ELSE lastWriter[p]]
           /\ calls' = [calls EXCEPT
                          ![c].args = Rounds(calls[c].op)[calls[c].round] \o pv.ret,
                          ![c].varFile = IF pv.ret = <<>> THEN <<>> ELSE pv.ret[2],
                          ![c].wrote = @ \cup paths,
                          ![c].pc = "spawn"]
    /\ UNCHANGED callVars

\* common.ts:43, 122, 182 and commands.ts:46: the process is started.
ConcSpawn(c) ==
    /\ c \in DOMAIN calls
    /\ calls[c].pc = "spawn"
    /\ calls' = [calls EXCEPT
                   ![c].log = Append(@, [args |-> calls[c].args, cwd |-> calls[c].root,
                                         read |-> NotRead]),
                   ![c].pc = "running"]
    /\ UNCHANGED <<fs, lastWriter, callVars>>

\* The running process reads the file its -var-file argument names.
ConcRead(c) ==
    /\ c \in DOMAIN calls
    /\ calls[c].pc = "running"
    /\ calls[c].varFile # <<>>
    /\ ~calls[c].log[Len(calls[c].log)].read.done
    /\ calls' = [calls EXCEPT
                   ![c].log[Len(calls[c].log)].read =
                       [done |-> TRUE, content |-> fs[calls[c].varFile],
                        from |-> lastWriter[calls[c].varFile]]]
    /\ UNCHANGED <<fs, lastWriter, callVars>>

\* The process exits, and the call goes on to its next round or returns.
ConcExit(c) ==
    /\ c \in DOMAIN calls
    /\ calls[c].pc = "running"
    /\ calls[c].varFile = <<>> \/ calls[c].log[Len(calls[c].log)].read.done
    /\ calls' = IF calls[c].round < Len(Rounds(calls[c].op))
                THEN [calls EXCEPT ![c].round = @ + 1, ![c].pc = "prepare"]
                ELSE [calls EXCEPT ![c].pc = "done"]
    /\ UNCHANGED <<fs, lastWriter, callVars>>

NextConcurrent ==
    \/ \E c \in CallIds, o \in ConcurrentOps, r \in Roots, v \in VarMaps :
         ConcStart(c, o, r, v)
    \/ \E c \in CallIds : ConcPrepare(c)
    \/ \E c \in CallIds : ConcSpawn(c)
    \/ \E c \in CallIds : ConcRead(c)
    \/ \E c \in CallIds : ConcExit(c)

SpecConcurrent == Init /\ [][NextConcurrent]_vars

\* Calls one after the other: the orchestrator starts a call when every
\* call it started before has returned.
SerialStart(c, o, dir, variables) ==
    /\ \A d \in DOMAIN calls : calls[d].pc = "done"
    /\ ConcStart(c, o, dir, variables)

NextSerial ==
    \/ \E c \in CallIds, o \in ConcurrentOps, r \in Roots, v \in VarMaps :
         SerialStart(c, o, r, v)
    \/ \E c \in CallIds : ConcPrepare(c)
    \/ \E c \in CallIds : ConcSpawn(c)
    \/ \E c \in CallIds : ConcRead(c)
    \/ \E c \in CallIds : ConcExit(c)

SpecSerial == Init /\ [][NextSerial]_vars

(***************************************************************************)
(* scanDirectory (src/unnamed/part_000:62-94): an async generator over the *)
(* events of a directory walker.  The walker is klaw's stream; it emits    *)
(* `data` once for each path it visits, the scanned directory itself       *)
(* first, then `end`.  The generator keeps one promise at a time; the      *)
(* walker's handlers settle the promise that `resolver` and `rejecter`     *)
(* name at that moment.  The consumer is a `for await` loop whose body     *)
(* makes no async call (lines 101-106, 161-173).  A walker event may       *)
(* arrive between any two steps of generator and consumer.                 *)
(***************************************************************************)
MaxItems == 3

ScanPaths == { <<"dir">> }

\* klaw.Item, without the stats.
Item(path) == [path |-> path]

ChildItems(path) == { Item(Append(path, n)) : n \in 1..MaxItems }

\* What a walker emits for a directory: the directory itself, then some of
\* its paths, each once, in any order.
Walks(path) ==
    LET picks == UNION { [1..n -> ChildItems(path)] : n \in 0..MaxItems }
    IN  { <<Item(path)>> \o w : w \in { v \in picks :
              \A i, j \in DOMAIN v : i # j => v[i] # v[j] } }

ScanErrors == { [type |-> "Error", code |-> "EACCES"] }

PendingPromise == [state |-> "pending"]

\* `resolve(v)` and `reject(e)` of a promise: a settled promise stays.
Resolve(p, v) == IF p.state = "pending" THEN [state |-> "resolved", value |-> v] ELSE p
Reject(p, e) == IF p.state = "pending" THEN [state |-> "rejected", value |-> e] ELSE p

\* part_000:66-92: the consumer asks for the first item; the generator body
\* starts, creates the walker and its first promise and suspends at `await`.
ScanStart(path, walk) ==
    /\ ~scan.started
    /\ scan' = [started |-> TRUE,
                path |-> path,
                toEmit |-> walk,        \* what the walker has yet to emit
                emitted |-> <<>>,       \* what it has emitted
                ended |-> FALSE,        \* it has emitted `end`
                errored |-> FALSE,      \* it has emitted `error`
                done |-> FALSE,         \* part_000:67
                promise |-> PendingPromise,   \* the promise of part_000:87
                gen |-> "await",        \* where the generator stands
                value |-> JsUndefined,  \* what the generator yielded last
                consumer |-> "waiting", \* where the consumer stands
                received |-> <<>>,      \* what the consumer was given
                dropped |-> <<>>]       \* items whose `resolver(item)` did nothing
    /\ UNCHANGED <<fs, calls, lastWriter, callVarsButScan>>

\* part_000:72-76
OnData(item) ==
    IF item.path # scan.path THEN Resolve(scan.promise, item) ELSE scan.promise

WalkerData ==
    /\ scan.started
    /\ ~scan.ended
    /\ scan.toEmit # <<>>
    /\ LET item == Head(scan.toEmit)
       IN  scan' = [scan EXCEPT
                      !.toEmit = Tail(@),
                      !.emitted = Append(@, item),
                      !.promise = OnData(item),
                      !.dropped = IF item.path # scan.path /\ scan.promise.state # "pending"
                                  THEN Append(@, item) ELSE @]
    /\ UNCHANGED <<fs, calls, lastWriter, callVarsButScan>>

\* part_000:77-79
WalkerError ==
    /\ scan.started
    /\ ~scan.ended
    /\ ~scan.errored
    /\ \E e \in ScanErrors :
         scan' = [scan EXCEPT !.errored = TRUE, !.promise = Reject(@, e)]
    /\ UNCHANGED <<fs, calls, lastWriter, callVarsButScan>>

\* part_000:80-83
WalkerEnd ==
    /\ scan.started
    /\ ~scan.ended
    /\ scan.toEmit = <<>>
    /\ scan' = [scan EXCEPT
                   !.ended = TRUE,
                   !.done = TRUE,
                   !.promise = Resolve(@, JsUndefined)]
    /\ UNCHANGED <<fs, calls, lastWriter, callVarsButScan>>

\* part_000:92: the promise is settled and the generator goes on: it yields
\* the value, or throws the error, to the consumer.
GeneratorResume ==
    /\ scan.started
    /\ scan.gen = "await"
    /\ scan.promise.state \in {"resolved", "rejected"}
    /\ scan' = IF scan.promise.state = "resolved"
               THEN [scan EXCEPT !.gen = "yield", !.value = scan.promise.value,
                                 !.consumer = "given"]
               ELSE [scan EXCEPT !.gen = "threw", !.consumer = "threw"]
    /\ UNCHANGED <<fs, calls, lastWriter, callVarsButScan>>

\* The consumer takes the value, runs its loop body and asks for the next
\* item; the generator tests `!done` (part_000:86) and either creates the
\* next promise (87-90) and suspends at `await`, or returns.
ConsumerNext ==
    /\ scan.started
    /\ scan.consumer = "given"
    /\ scan' = IF ~scan.done
               THEN [scan EXCEPT !.received = Append(@, scan.value),
                                 !.promise = PendingPromise,
                                 !.gen = "await",
                                 !.consumer = "waiting"]
               ELSE [scan EXCEPT !.received = Append(@, scan.value),
                                 !.gen = "returned",
                                 !.consumer = "finished"]
    /\ UNCHANGED <<fs, calls, lastWriter, callVarsButScan>>

NextScan ==
    \/ \E path \in ScanPaths : \E walk \in Walks(path) : ScanStart(path, walk)
    \/ WalkerData
    \/ WalkerError
    \/ WalkerEnd
    \/ GeneratorResume
    \/ ConsumerNext

SpecScan == Init /\ [][NextScan]_vars

(***************************************************************************)
(* Properties.                                                             *)
(***************************************************************************)
\* The sub-commands of the tool started so far in this call, in start order.
CmdNames == [i \in DOMAIN cmds |-> cmds[i].args[1]]

Count(name) == Cardinality({i \in DOMAIN cmds : cmds[i].args[1] = name})

\* A validate body that reports the configuration invalid.
ReportsInvalid(r) == r.valid = JsFalse

\* A validate body with a diagnostic whose summary is one of the stock
\* phrases that `terraform init` cures.
HasRecoverable(r) ==
    \E i \in DOMAIN r.diagnostics :
        r.diagnostics[i].summary \in
            {"Could not satisfy plugin requirements", "Module not installed"}

ThrewType(t) == outcome.kind = "throw" /\ outcome.error.type = t

InitFailed == ThrewType("TimeoutError") \/ ThrewType("ChildProcessError")

\* C1: in tfValidate, when the first validate reports valid=false with a
\* recoverable diagnostic and the validate re-run after init reports
\* valid=false again, the call fails with a ConfigurationError.
C1_RetryStillInvalidFails ==
    ( /\ op = "tfValidate"
      /\ pc = "done"
      /\ ReportsInvalid(res) /\ HasRecoverable(res)
      /\ CmdNames = <<"validate", "init", "validate">>
      /\ ReportsInvalid(retryRes) )
    => ThrewType("ConfigurationError")

\* C2: in tfValidate, when the first validate reports valid=false and some
\* diagnostic summary is recoverable (also next to non-recoverable ones), the
\* call runs validate, then init once, then (init having succeeded) validate
\* once more with the same arguments, and nothing else; whatever the tool
\* does, a call runs at most one init and at most two validates.
C2_OneInitOneRetry ==
    /\ Count("init") <= 1
    /\ Count("validate") <= 2
    /\ ( ReportsInvalid(res) /\ HasRecoverable(res) )
       => CASE pc = "tfValidate.init" -> CmdNames = <<"validate">>
            [] pc = "tfValidate.retry" -> CmdNames = <<"validate", "init">>
            [] pc = "done" /\ InitFailed -> CmdNames = <<"validate", "init">>
            [] pc = "done" /\ ~InitFailed ->
                 /\ CmdNames = <<"validate", "init", "validate">>
                 /\ cmds[3].args = cmds[1].args
                 /\ cmds[3].cwd = cmds[1].cwd
            [] OTHER -> FALSE

C2_Witness ==
    /\ op = "tfValidate"
    /\ pc = "done"
    /\ ReportsInvalid(res)
    /\ Len(res.diagnostics) = 2
    /\ res.diagnostics[1].summary = "Some other error"
    /\ res.diagnostics[2].summary = "Module not installed"
    /\ CmdNames = <<"validate", "init", "validate">>
    /\ Len(cmds[3].args) = 4
    /\ cmds[3].args[3] = "-var-file"

\* C3: in tfValidate, when the first validate reports valid=false and no
\* diagnostic summary is recoverable, the call fails at once with a
\* ConfigurationError: validate is the only command run, no init and no
\* second validate.
C3_UnrecoverableFailsAtOnce ==
    ( op = "tfValidate" /\ ReportsInvalid(res) /\ ~HasRecoverable(res) )
    => /\ pc = "done"
       /\ ThrewType("ConfigurationError")
       /\ outcome.error.detail.result = res
       /\ CmdNames = <<"validate">>

C3_Witness ==
    /\ op = "tfValidate"
    /\ pc = "done"
    /\ ReportsInvalid(res)
    /\ Len(res.diagnostics) = 1
    /\ res.diagnostics[1].summary = "Some other error"
    /\ ThrewType("ConfigurationError")

(***************************************************************************)
(* getStackStatus: the classification of the plan result.                  *)
(***************************************************************************)
\* getStackStatus has run plan (validation having succeeded) with this exit code.
PlanExited(code) ==
    op = "getStackStatus" /\ plan.ran /\ plan.exitCode = code

\* The output command, as the last command of the call.
OutputRanLast ==
    /\ Count("output") = 1
    /\ cmds[Len(cmds)].args = <<"output", "-json">>
    /\ cmds[Len(cmds)].cwd = params.root

\* outputs maps exactly the keys of the output document, each to the
\* `value` field of its entry.
DecodedOutputs(outputs, body) ==
    /\ Len(outputs) = Len(body)
    /\ \A i \in DOMAIN body :
         /\ outputs[i].k = body[i].k
         /\ outputs[i].v = body[i].v.value

ReturnedStatus(ready) ==
    outcome.kind = "return" /\ outcome.value.ready = ready

\* The call is waiting for the output command, or the output command was the
\* last thing it ran: then, the command having printed its document, the
\* call returned ready=true with exactly the decoded outputs, and otherwise
\* it ended with the command's own error.
FetchesOutputs ==
    \/ pc = "getStackStatus.output" /\ Count("output") = 0
    \/ /\ pc = "done"
       /\ OutputRanLast
       /\ IF outRes.decoded
          THEN ReturnedStatus(TRUE) /\ DecodedOutputs(outcome.value.outputs, outRes.body)
          ELSE ThrewType("ChildProcessError")

\* C4: after plan exits with code 2 and autoApply=false, getStackStatus emits
\* the no-auto-apply warning (naming the apply command), runs the output
\* command and returns ready=true with the decoded outputs.
C4_DriftWithoutAutoApplyIsReady ==
    ( PlanExited(2) /\ ~params.autoApply )
    => /\ warnings = <<noAutoApplyMsg(params.applyCommand)>>
       /\ FetchesOutputs

C4_Witness ==
    /\ PlanExited(2) /\ ~params.autoApply
    /\ pc = "done"
    /\ ReturnedStatus(TRUE)
    /\ Len(outcome.value.outputs) = 2
    /\ Len(warnings) = 1

\* C5: after plan exits with code 2 and autoApply=true, getStackStatus
\* returns ready=false with empty outputs, emits no warning and runs neither
\* the output command nor apply.
C5_DriftWithAutoApplyIsNotReady ==
    ( PlanExited(2) /\ params.autoApply )
    => /\ pc = "done"
       /\ ReturnedStatus(FALSE)
       /\ outcome.value.outputs = <<>>
       /\ warnings = <<>>
       /\ Count("output") = 0
       /\ Count("apply") = 0
       /\ CmdNames[Len(cmds)] = "plan"

C5_Witness ==
    /\ PlanExited(2) /\ params.autoApply
    /\ pc = "done"
    /\ ReturnedStatus(FALSE)
    /\ CmdNames = <<"validate", "init", "validate", "plan">>

\* C6: after plan exits with code 0, getStackStatus runs the output command
\* and returns ready=true with exactly the decoded outputs, whatever
\* autoApply is; it emits no warning.
C6_UpToDateIsReady ==
    PlanExited(0)
    => /\ FetchesOutputs
       /\ warnings = <<>>

C6_Witness ==
    /\ PlanExited(0) /\ params.autoApply
    /\ pc = "done"
    /\ ReturnedStatus(TRUE)
    /\ Len(outcome.value.outputs) = 2
    /\ outcome.value.outputs[2] = Entry("y", JsStr("s"))

\* C7: after plan exits with code 1, getStackStatus returns ready=false with
\* empty outputs, does not throw and does not run the output command,
\* whatever autoApply is.
C7_PlanErrorIsNotReady ==
    PlanExited(1)
    => /\ pc = "done"
       /\ ReturnedStatus(FALSE)
       /\ outcome.value.outputs = <<>>
       /\ Count("output") = 0

C7_Witness ==
    /\ PlanExited(1) /\ params.autoApply
    /\ pc = "done"
    /\ outcome.kind = "return"
    /\ plan.stderr # ""

\* C8: when plan exits with a code outside {0,1,2}, getStackStatus throws a
\* PluginError carrying that exit code and the stdout and stderr plan
\* produced; plan was run once and the output command not at all.
C8_UnexpectedExitCodeThrows ==
    ( op = "getStackStatus" /\ plan.ran /\ plan.exitCode \notin {0, 1, 2} )
    => /\ pc = "done"
       /\ ThrewType("PluginError")
       /\ outcome.error.detail.exitCode = plan.exitCode
       /\ outcome.error.detail.stdout = plan.stdout
       /\ outcome.error.detail.stderr = plan.stderr
       /\ Count("plan") = 1
       /\ Count("output") = 0

C8_Witness ==
    /\ op = "getStackStatus" /\ plan.ran /\ plan.exitCode = 127
    /\ plan.stdout # "" /\ plan.stderr = ""
    /\ ThrewType("PluginError")

\* C9 as stated: whenever validation succeeds and plan exits with 0, 1 or 2,
\* getStackStatus completes with a StackStatus and never with an error,
\* whatever the commands run after plan do.
C9_NeverThrowsForKnownExitCodes ==
    ( op = "getStackStatus" /\ plan.ran /\ plan.exitCode \in {0, 1, 2} /\ pc = "done" )
    => outcome.kind = "return"

\* C9 as amended: whenever validation succeeds and plan exits with 0, 1 or 2,
\* getStackStatus raises no error of its own: it completes with a
\* StackStatus unless the output command it ran (exit code 0, or 2 with
\* autoApply=false) failed, and then the call ends with that command's error.
C9_ThrowsOnlyTheOutputCommandsError ==
    ( op = "getStackStatus" /\ plan.ran /\ plan.exitCode \in {0, 1, 2} /\ pc = "done" )
    => \/ outcome.kind = "return"
       \/ /\ ThrewType("ChildProcessError")
          /\ OutputRanLast
          /\ ~outRes.decoded
          /\ plan.exitCode = 0 \/ (plan.exitCode = 2 /\ ~params.autoApply)

C9_Witness ==
    /\ PlanExited(0)
    /\ pc = "done"
    /\ ThrewType("ChildProcessError")
    /\ OutputRanLast

(***************************************************************************)
(* prepareVariables: the variable file.                                    *)
(***************************************************************************)
\* Reading a JSON object of primitives back from its tokens.
JsonLiteral(tok) ==
    CASE tok = "true" -> JsTrue
      [] tok = "false" -> JsFalse
      [] tok = "null" -> JsNull
      [] OTHER -> JsNum(tok)

RECURSIVE ParseMembers(_)
ParseMembers(t) ==
    IF Len(t) < 5 THEN <<>>
    ELSE LET quoted == t[5] = "\""
             value == IF quoted THEN JsStr(t[6]) ELSE JsonLiteral(t[5])
             used == IF quoted THEN 7 ELSE 5
             more == SubSeq(t, used + 1, Len(t))
         IN  <<Entry(t[2], value)>>
             \o ParseMembers(IF more # <<>> /\ Head(more) = "," THEN Tail(more) ELSE more)

JSONparse(t) == ParseMembers(SubSeq(t, 2, Len(t) - 1))

IsJsonObject(t) == Len(t) >= 2 /\ t[1] = "{" /\ t[Len(t)] = "}"

\* The variable file of a root.
VarFile(root) == root \o <<"garden.tfvars.json">>

HasNoEntries(variables) == ~variables.defined \/ variables.entries = <<>>

\* C10: for every variable map V, absent included, prepareVariables(root, V)
\* returns the empty argument list and writes no file if and only if V has
\* no entries; otherwise it writes the JSON serialization of exactly V to
\* <root>/garden.tfvars.json, and nothing else, and returns
\* <<"-var-file", that path>>.
C10_PrepareVariables ==
    ( op = "prepareVariables" /\ pc = "done" )
    => /\ outcome.kind = "return"
       /\ IF HasNoEntries(params.variables)
          THEN /\ outcome.value = <<>>
               /\ writes = <<>>
          ELSE /\ outcome.value = <<"-var-file", VarFile(params.root)>>
               /\ Len(writes) = 1
               /\ writes[1].path = VarFile(params.root)
               /\ IsJsonObject(writes[1].data)
               /\ JSONparse(writes[1].data) = params.variables.entries
               /\ VarFile(params.root) \in DOMAIN fs
               /\ fs[VarFile(params.root)] = writes[1].data

C10_Witness ==
    /\ op = "prepareVariables" /\ pc = "done"
    /\ Len(params.variables.entries) = 2
    /\ Len(writes) = 1
    /\ VarFile(<<"project", "a">>) \in DOMAIN fs
    /\ params.root = <<"project", "b">>

(***************************************************************************)
(* The variable file across calls.                                         *)
(***************************************************************************)
\* A call of any kind made with a variable map without entries has completed.
EmptyCallCompleted ==
    /\ op # "none"
    /\ pc = "done"
    /\ HasNoEntries(params.variables)

\* C11 as stated: once a call made with an empty variable map has completed,
\* no variable file exists at <root>/garden.tfvars.json, also when an earlier
\* call against that root had variables.
C11_NoVarFileAfterEmptyCall ==
    EmptyCallCompleted => VarFile(params.root) \notin DOMAIN fs

\* C11 as amended: a call made with an empty variable map writes nothing and
\* leaves every file as it found it, from its start to its completion (a
\* variable file that an earlier call wrote under that root stays, with the
\* earlier call's content), and it passes no -var-file argument to the tool.
C11_EmptyCallLeavesFilesAlone ==
    /\ [][HasNoEntries(params.variables) => fs' = fs]_vars
    /\ [](HasNoEntries(params.variables) =>
            /\ writes = <<>>
            /\ \A i \in DOMAIN cmds :
                 \A j \in DOMAIN cmds[i].args : cmds[i].args[j] # "-var-file")

C11_Witness ==
    /\ EmptyCallCompleted
    /\ op = "getStackStatus"
    /\ params.variables = Obj(<<>>)
    /\ VarFile(params.root) \in DOMAIN fs
    /\ Count("plan") = 1

\* ---- tfValidate: what the outcome depends on ----

\* The result of the init command of this call, once it has finished.
InitRan == Len(results) >= 2 /\ cmds[2].args = <<"init">>

InitResult == results[2]

Failed(r) == r.timedOut \/ r.exitCode # 0

\* What a tfValidate call ends with, told from the decoded validate bodies and
\* the init result alone.
OutcomeFromBodies ==
    IF ~FirstInvalid(res) THEN Returned(JsUndefined)
    ELSE IF ~NeedsInit(res) THEN Thrown(tfValidationError(res))
    ELSE IF Failed(InitResult)
         THEN Thrown(RunError(InitResult.exitCode, InitResult.timedOut))
    ELSE IF RetryInvalid(retryRes) THEN Thrown(tfValidationError(retryRes))
    ELSE Returned(JsUndefined)

\* The commands a tfValidate call runs, told from the same.
CommandsFromBodies ==
    IF ~(FirstInvalid(res) /\ NeedsInit(res)) THEN <<"validate">>
    ELSE IF Failed(InitResult) THEN <<"validate", "init">>
    ELSE <<"validate", "init", "validate">>

ValidateExitCodes ==
    {results[i].exitCode : i \in {j \in DOMAIN results : cmds[j].args[1] = "validate"}}

\* C19: the outcome of a tfValidate call and the commands it runs are a
\* function of the decoded bodies of its validate commands and of the init
\* result; the exit codes of the validate processes, recorded in `results`,
\* take no part in it, so two calls that differ in them alone end alike.
C19_OutcomeIgnoresValidateExitCode ==
    ( op = "tfValidate" /\ pc = "done" )
    => /\ res # NoResult
       /\ outcome = OutcomeFromBodies
       /\ CmdNames = CommandsFromBodies
       /\ \A i \in DOMAIN cmds :
            cmds[i].args[1] = "validate" =>
                cmds[i].ignoreError /\ cmds[i].args = cmds[1].args

\* A recovered call whose two validate processes exited 1 and 0.
C19_Witness ==
    /\ op = "tfValidate"
    /\ pc = "done"
    /\ CmdNames = <<"validate", "init", "validate">>
    /\ results[1].exitCode = 1
    /\ results[3].exitCode = 0
    /\ retryRes.valid = JsTrue
    /\ outcome = Returned(JsUndefined)

\* ---- tfValidate: init fails ----

\* C20: when the init command fails or outruns its timeout, the call ends
\* there with that error: init is the last command started, so validate is
\* not re-run and, inside getStackStatus, plan is never started.
C20_InitFailureFailsTheCall ==
    ( InitRan /\ Failed(InitResult) )
    => /\ pc = "done"
       /\ outcome = Thrown(RunError(InitResult.exitCode, InitResult.timedOut))
       /\ CmdNames = <<"validate", "init">>
       /\ cmds[2].timeout = InitTimeout

\* getStackStatus ended by an init that outran its timeout.
C20_Witness ==
    /\ op = "getStackStatus"
    /\ pc = "done"
    /\ InitRan
    /\ InitResult.timedOut
    /\ ThrewType("TimeoutError")
    /\ Count("plan") = 0

\* ---- applyStack: how the call settles ----

Applying == op = "applyStack" /\ proc.spawned

ExitedZero == StrictEq(proc.code, JsNum("0"))

\* Everything the child wrote to a stream, as one text.
Emitted(stream) == Concat(proc.emitted[stream])

\* The error of a failed exit, built from all the child wrote.
ExitError == RuntimeError(Emitted("stdout"), Emitted("stderr"), proc.code)

\* C12 as stated: whenever the child closes with a code other than 0 (null
\* included) applyStack rejects with a RuntimeError carrying the stdout
\* buffer, the stderr buffer and the code, and it resolves only when the
\* child closes with code 0.
C12_NonZeroCloseRejectsWithRuntimeError ==
    /\ ( Applying /\ proc.closed /\ ~ExitedZero ) => outcome = Thrown(ExitError)
    /\ ( Applying /\ outcome.kind = "return" ) => proc.closed /\ ExitedZero

\* C12 as amended: a close with a code other than 0 rejects with that
\* RuntimeError unless the process emitted an error event first, in which
\* case the call stays rejected with the error of that event; applyStack
\* resolves only when the child closes with code 0 without such an event.
C12_CloseSettlesUnlessErrored ==
    /\ ( Applying /\ proc.closed /\ ~ExitedZero /\ ~proc.errored )
         => outcome = Thrown(ExitError)
    /\ ( Applying /\ proc.closed /\ proc.errored )
         => outcome = Thrown(proc.error)
    /\ ( Applying /\ outcome.kind = "return" )
         => proc.closed /\ ExitedZero /\ ~proc.errored

\* The child wrote to both streams and was killed by a signal.
C12_Witness ==
    /\ Applying
    /\ proc.closed
    /\ proc.code = JsNull
    /\ ~proc.errored
    /\ Emitted("stdout") # <<>>
    /\ Emitted("stderr") # <<>>
    /\ outcome = Thrown(ExitError)

\* C13: the stdout buffer holds the chunks the child wrote to stdout, in the
\* order written, and the stderr buffer those written to stderr, nothing of
\* one stream in the buffer of the other; so it is at every moment of the
\* call, and hence when applyStack resolves.
C13_BuffersHoldTheirOwnStream ==
    Applying => /\ apply.stdout = Emitted("stdout")
                /\ apply.stderr = Emitted("stderr")

\* A resolved call whose child wrote two chunks to each stream.
C13_Witness ==
    /\ Applying
    /\ outcome = Returned(JsUndefined)
    /\ Len(proc.emitted.stdout) = 2
    /\ Len(proc.emitted.stderr) = 2
    /\ proc.emitted.stdout[1] # proc.emitted.stdout[2]
    /\ apply.stdout = Emitted("stdout")
    /\ apply.stderr = Emitted("stderr")

\* C14: once the child process has emitted an error event the call is
\* rejected with the error of that event itself, not with a RuntimeError
\* around it, whether or not the process has closed.
C14_ErrorEventRejectsWithThatError ==
    ( Applying /\ proc.errored )
    => /\ pc = "done"
       /\ outcome = Thrown(proc.error)
       /\ outcome.error \in ProcErrors

\* Rejected by an error event while the process has not closed.
C14_Witness ==
    /\ Applying
    /\ proc.errored
    /\ ~proc.closed
    /\ ~proc.stdoutEnded
    /\ pc = "done"
    /\ outcome = Thrown(proc.error)

\* ---- applyStack: the status line ----

\* The lines of a text: what stands before each newline, and what is left
\* after the last one.
LinesOf(text) ==
    LET r == SplitLines(text, <<>>)
    IN  IF r.last = <<>> THEN r.lines ELSE Append(r.lines, r.last)

Shown(line) ==
    \E i \in DOMAIN apply.statusLine : apply.statusLine[i] = <<"→ ">> \o line

\* C15: when the child process has closed, every line it wrote to stdout or
\* to stderr has been shown on the status line, whatever the order of the
\* data and end events of the two streams, also the lines written to one
\* stream after the other has ended.
C15_EveryLineReachesTheStatusLine ==
    ( Applying /\ proc.closed )
    => \A stream \in {"stdout", "stderr"} :
         \A i \in DOMAIN LinesOf(Emitted(stream)) :
             Shown(LinesOf(Emitted(stream))[i])

\* ---- the passthrough commands ----

\* The first positional argument is missing or empty.
NoModuleName == params.args = <<>> \/ params.args[1] = ""

ModulesNamed(name) == {i \in DOMAIN Modules : Modules[i].name = name}

\* No module of the project has the name given.
UnknownModule == ~NoModuleName /\ ModulesNamed(params.args[1]) = {}

\* The module named is not compatible with the type "terraform".
NotATerraformModule ==
    /\ ~NoModuleName
    /\ \E i \in ModulesNamed(params.args[1]) :
         \A j \in DOMAIN Modules[i].compatibleTypes :
             Modules[i].compatibleTypes[j] # "terraform"

NothingDone == writes = <<>> /\ cmds = <<>>

\* C16: the module passthrough handler throws a ParameterError when its
\* first argument is missing or empty, when no module has that name and
\* when the module named is not compatible with "terraform"; it has then
\* written no variable file and started no process.
C16_ModuleCommandRejectsBadModule ==
    ( /\ IsModuleCommand
      /\ pc # "module.prepare"
      /\ NoModuleName \/ UnknownModule \/ NotATerraformModule )
    => /\ pc = "done"
       /\ ThrewType("ParameterError")
       /\ NothingDone

\* The module named is one of another type, and files of earlier calls exist.
C16_Witness ==
    /\ IsModuleCommand
    /\ pc = "done"
    /\ NotATerraformModule
    /\ ThrewType("ParameterError")
    /\ NothingDone
    /\ DOMAIN fs # {}

\* C17: the root passthrough handler throws a ConfigurationError when the
\* provider has no initRoot, having written no variable file and started
\* no process; with an initRoot it never throws a ConfigurationError.
C17_RootCommandNeedsInitRoot ==
    IsRootCommand
    => IF params.config.initRoot = JsUndefined
       THEN pc # "root.prepare"
            => pc = "done" /\ ThrewType("ConfigurationError") /\ NothingDone
       ELSE ~ThrewType("ConfigurationError")

\* Refused although variables and arguments were given.
C17_Witness ==
    /\ IsRootCommand
    /\ pc = "done"
    /\ params.config.initRoot = JsUndefined
    /\ ~HasNoEntries(params.config.variables)
    /\ params.args # <<>>
    /\ ThrewType("ConfigurationError")
    /\ NothingDone

\* The root and the variables of the stack a passthrough command is for.
StackRoot ==
    IF IsRootCommand
    THEN params.projectRoot \o <<params.config.initRoot.v>>
    ELSE LET m == Modules[CHOOSE i \in DOMAIN Modules : Modules[i].name = params.args[1]]
         IN  IF m.spec.root.v = "." THEN m.path ELSE m.path \o <<m.spec.root.v>>

StackVariables ==
    IF IsRootCommand
    THEN params.config.variables
    ELSE Modules[CHOOSE i \in DOMAIN Modules : Modules[i].name = params.args[1]].spec.variables

VarFileArgs ==
    IF HasNoEntries(StackVariables) THEN <<>> ELSE <<"-var-file", VarFile(StackRoot)>>

ForwardedArgs ==
    IF IsRootCommand THEN params.args
    ELSE [i \in 1..(Len(params.args) - 1) |-> params.args[i + 1]]

\* C18: a passthrough command starts the tool once, with the sub-command,
\* then the variable file arguments of the stack's own variables, then the
\* forwarded arguments (all of them for the root stack, all after the
\* module name for a module), in the stack's own root, where the variable
\* file, if the stack has variables, was written before with those variables.
C18_PassthroughArguments ==
    ( (IsRootCommand \/ IsModuleCommand) /\ cmds # <<>> )
    => /\ Len(cmds) = 1
       /\ cmds[1].how = "spawnAndWait"
       /\ cmds[1].args = <<params.commandName>> \o VarFileArgs \o ForwardedArgs
       /\ cmds[1].cwd = StackRoot
       /\ IF HasNoEntries(StackVariables)
          THEN writes = <<>>
          ELSE /\ writes = << [path |-> VarFile(StackRoot),
                                data |-> JSONstringify(StackVariables.entries)] >>
               /\ fs[VarFile(StackRoot)] = JSONstringify(StackVariables.entries)

\* A module command with two forwarded arguments and a variable file.
C18_Witness ==
    /\ op = "plan-module"
    /\ pc = "done"
    /\ params.args = <<"net", "-target=x", "-lock=false">>
    /\ cmds # <<>>
    /\ cmds[1].args = <<"plan", "-var-file", <<"project", "net", "garden.tfvars.json">>,
                         "-target=x", "-lock=false">>
    /\ outcome = Returned([result |-> <<>>])

\* ---- tfValidationError: the message ----

Capitalised(severity) ==
    IF severity = "error" THEN "Error"
    ELSE IF severity = "warning" THEN "Warning" ELSE severity

\* One diagnostic as the message is to show it.
DiagnosticLine(d) ==
    <<Capitalised(d.severity), ": ", d.summary, "\n">>
    \o (IF d.detail = JsUndefined THEN <<"">> ELSE <<d.detail.v>>)

\* The diagnostics of a result, one entry each, in the reported order.
RECURSIVE DiagnosticLines(_)
DiagnosticLines(ds) ==
    IF ds = <<>> THEN <<>>
    ELSE DiagnosticLine(Head(ds))
         \o (IF Tail(ds) = <<>> THEN <<>> ELSE <<"\n">> \o DiagnosticLines(Tail(ds)))

MessageHead == <<"Failed validating Terraform configuration:", "\n", "\n">>

ValidationFailed == ThrewType("ConfigurationError") /\ op \in {"tfValidate", "getStackStatus"}

Keys(entries) == [i \in DOMAIN entries |-> entries[i].k]

\* C22: the map getTfOutputs returns has exactly the keys of the JSON object
\* the output command printed, in its order, each with the `value` field of
\* its entry as it is (same type, same value), sensitive or not; an empty
\* object gives an empty map.
C22_OutputsAreTheValueFields ==
    ( op = "getStackStatus" /\ outRes.decoded )
    => /\ outcome.kind = "return"
       /\ Keys(outcome.value.outputs) = Keys(outRes.body)
       /\ \A i \in DOMAIN outRes.body :
            StrictEq(outcome.value.outputs[i].v, outRes.body[i].v.value)
       /\ outRes.body = <<>> => outcome.value.outputs = <<>>

\* The output command printed the empty object.
C22_Witness ==
    /\ op = "getStackStatus"
    /\ pc = "done"
    /\ outRes.decoded
    /\ outRes.body = <<>>
    /\ outcome.kind = "return"
    /\ outcome.value.outputs = <<>>

\* ---- calls running side by side ----

\* What a call's variable file holds when the call has written it.
OwnContent(c) == JSONstringify(OrEmptyObject(calls[c].variables))

\* The reads the processes of a call have made.
Reads(c) == {i \in DOMAIN calls[c].log : calls[c].log[i].read.done}

SameRoot(c, d) == c # d /\ calls[c].root = calls[d].root

\* C23 (what a process reads): a process reads the variable file as the
\* call that wrote it last left it, whichever call that was: the call of the
\* process itself, or another call running against the same root.
C23_ProcessReadsTheLastWrite ==
    \A c \in DOMAIN calls : \A i \in Reads(c) :
        LET read == calls[c].log[i].read
        IN  /\ read.from \in DOMAIN calls
            /\ calls[read.from].root = calls[c].root
            /\ ~HasNoEntries(calls[read.from].variables)
            /\ read.content = OwnContent(read.from)

\* C23 (the race): two calls against one root with different non-empty
\* variable maps, and a process of the one has read what the other wrote.
C23_Witness ==
    \E c \in DOMAIN calls, d \in DOMAIN calls :
        /\ SameRoot(c, d)
        /\ ~HasNoEntries(calls[c].variables)
        /\ ~HasNoEntries(calls[d].variables)
        /\ calls[c].variables # calls[d].variables
        /\ calls[c].op = "getStackStatus"
        /\ calls[d].op = "applyStack"
        /\ \E i \in Reads(c) :
             /\ calls[c].log[i].read.from = d
             /\ calls[c].log[i].read.content = OwnContent(d)
             /\ calls[c].log[i].read.content # OwnContent(c)

\* A call that shares its root with no other call.
Apart(c) == \A d \in DOMAIN calls : ~SameRoot(c, d)

\* The processes a call has started and what they have read so far, were
\* it the only call.
AloneLog(c) ==
    [i \in DOMAIN calls[c].log |->
        [args |-> Rounds(calls[c].op)[i]
                  \o (IF HasNoEntries(calls[c].variables) THEN <<>>
                      ELSE <<"-var-file", VarFile(calls[c].root)>>),
         cwd |-> calls[c].root,
         read |-> IF calls[c].log[i].read.done
                  THEN [done |-> TRUE, content |-> OwnContent(c), from |-> c]
                  ELSE NotRead]]

\* C24: a call whose root no other call has writes no file but the variable
\* file under its own root, runs its processes in its own root, and each
\* process reads the variables of its own call: the call goes exactly as
\* it would alone, however the calls interleave.
C24_DifferentRootsDoNotInterfere ==
    \A c \in DOMAIN calls :
        Apart(c) => /\ calls[c].wrote \subseteq {VarFile(calls[c].root)}
                    /\ calls[c].log = AloneLog(c)
                    /\ ~HasNoEntries(calls[c].variables) /\ calls[c].wrote # {}
                         => fs[VarFile(calls[c].root)] = OwnContent(c)

\* Two calls with different variables, each with a process that has read
\* its file while the other call was running too.
C24_Witness ==
    \E c \in DOMAIN calls, d \in DOMAIN calls :
        /\ c # d
        /\ calls[c].root # calls[d].root
        /\ ~HasNoEntries(calls[c].variables)
        /\ ~HasNoEntries(calls[d].variables)
        /\ calls[c].variables # calls[d].variables
        /\ calls[c].pc = "running" /\ calls[d].pc = "running"
        /\ Reads(c) = {1, 2}
        /\ Reads(d) = {1}
        /\ calls[c].log[2].read.content = OwnContent(c)
        /\ calls[d].log[1].read.content = OwnContent(d)

\* ---- one child process at a time ----

\* The child process of the call is running.
Alive == proc.spawned /\ ~proc.closed

CallSettled == outcome # Pending

CommandOrders ==
    LET short == <<"validate", "plan", "output">>
        long == <<"validate", "init", "validate", "plan", "output">>
    IN  {SubSeq(short, 1, n) : n \in 0..3} \cup {SubSeq(long, 1, n) : n \in 0..5}

\* C26: getStackStatus starts its commands in the order validate, (init,
\* validate), plan, (output); plan is started only when validation is over
\* without an error, the output command only when plan has exited; an error
\* of tfValidate ends the call as it is, with no plan and no output command.
C26_CommandOrder ==
    op = "getStackStatus"
    => /\ CmdNames \in CommandOrders
       /\ Len(results) = Len(cmds)
       /\ Count("plan") = 1
            => /\ plan.ran
               /\ InitRan => ~Failed(InitResult)
               /\ ~ThrewType("ConfigurationError")
       /\ Count("output") = 1 => plan.ran /\ plan.exitCode \in {0, 2}
       /\ ( ThrewType("ConfigurationError") \/ (InitRan /\ Failed(InitResult)) )
            => /\ pc = "done"
               /\ Count("plan") = 0
               /\ Count("output") = 0
       /\ ThrewType("ConfigurationError")
            => outcome.error = tfValidationError(outcome.error.detail.result)

\* All five commands in a row.
C26_Witness ==
    /\ op = "getStackStatus"
    /\ pc = "done"
    /\ CmdNames = <<"validate", "init", "validate", "plan", "output">>
    /\ plan.exitCode = 0
    /\ ReturnedStatus(TRUE)

\* ---- The variable file and the process that is given it ----

\* The call is about to start a process, or has one running.
AtProcess(c) == calls[c].pc \in {"spawn", "running"}

\* C27: validate, plan, apply and the passthrough commands write the
\* variable file before they start the process that is given it; with the
\* calls made one after the other, the file holds the variables of the call
\* when its process is started, while the process runs and when it reads
\* the file.
C27_VarFileWrittenBeforeStart ==
    \A c \in DOMAIN calls :
        /\ ( AtProcess(c) /\ calls[c].varFile # <<>> )
           => /\ calls[c].varFile = VarFile(calls[c].root)
              /\ calls[c].varFile \in calls[c].wrote
              /\ calls[c].varFile \in DOMAIN fs
              /\ fs[calls[c].varFile] = OwnContent(c)
              /\ JSONparse(fs[calls[c].varFile]) = calls[c].variables.entries
        /\ AtProcess(c) => ( calls[c].varFile = <<>> <=> HasNoEntries(calls[c].variables) )
        /\ \A i \in Reads(c) : calls[c].log[i].read.content = OwnContent(c)

\* A second call against the root of a first one, with other variables: its
\* process has read the file.
C27_Witness ==
    /\ DOMAIN calls = {"A", "B"}
    /\ calls["A"].pc = "done"
    /\ calls["A"].op = "getStackStatus"
    /\ Len(calls["A"].variables.entries) = 2
    /\ calls["B"].op = "apply-root"
    /\ calls["B"].root = calls["A"].root
    /\ Len(calls["B"].variables.entries) = 1
    /\ calls["B"].pc = "running"
    /\ Reads("B") = {1}

\* ---- getStackStatus: ready and outputs ----

\* C28: a StackStatus that getStackStatus returns with ready=false has no
\* outputs; one with outputs has ready=true, and the call ran the output
\* command, once, as its last command, and returns what that command printed.
C28_NotReadyHasNoOutputs ==
    ( op = "getStackStatus" /\ outcome.kind = "return" )
    => /\ pc = "done"
       /\ outcome.value.ready \in BOOLEAN
       /\ ~outcome.value.ready => outcome.value.outputs = <<>>
       /\ ~outcome.value.ready => Count("output") = 0
       /\ outcome.value.outputs # <<>>
            => /\ outcome.value.ready
               /\ Count("output") = 1
               /\ CmdNames[Len(cmds)] = "output"
               /\ outRes.decoded
               /\ outcome.value.outputs = getTfOutputs(outRes.body)

\* A failed plan: not ready, nothing fetched.
C28_Witness ==
    /\ op = "getStackStatus"
    /\ ReturnedStatus(FALSE)
    /\ outcome.value.outputs = <<>>
    /\ CmdNames = <<"validate", "plan">>
    /\ plan.exitCode = 1
    /\ ~params.autoApply

\* ---- getStackStatus: what autoApply takes part in ----

\* The commands of the validation of this call, told from its init result.
ValidationCommands ==
    IF ~InitRan THEN <<"validate">>
    ELSE IF Failed(InitResult) THEN <<"validate", "init">>
    ELSE <<"validate", "init", "validate">>

\* The plan command of this call.
PlanCommand ==
    Cmd("exec",
        <<"plan", "-detailed-exitcode", "-input=false", "-refresh=false", "-lock=false">>
        \o (IF HasNoEntries(params.variables) THEN <<>>
            ELSE <<"-var-file", VarFile(params.root)>>),
        params.root, TRUE, NoTimeout)

OutputCommand == Cmd("json", <<"output", "-json">>, params.root, FALSE, NoTimeout)

\* What a call whose plan exited with a code other than 2 runs after its
\* validation, and what it ends with, told from the plan result and the
\* result of the output command alone.
CommandsFromPlan ==
    IF plan.exitCode = 0 THEN <<PlanCommand, OutputCommand>> ELSE <<PlanCommand>>

OutcomeFromPlan ==
    CASE plan.exitCode = 0 ->
           IF outRes.decoded
           THEN Returned(StackStatus(TRUE, getTfOutputs(outRes.body)))
           ELSE Thrown(RunError(results[Len(results)].exitCode,
                                results[Len(results)].timedOut))
      [] plan.exitCode = 1 -> Returned(StackStatus(FALSE, <<>>))
      [] OTHER -> Thrown(PluginError(plan))

\* C29: unless plan exits with code 2, the commands a getStackStatus call
\* runs, the warnings it emits and the result or error it ends with are told
\* from the validation outcome, the plan result and the output command's
\* result, without autoApply: two calls that differ in autoApply alone end
\* alike.  A call whose validation throws runs no plan and warns of nothing.
C29_AutoApplyOnlyOnDrift ==
    ( op = "getStackStatus" /\ pc = "done" /\ ~PlanExited(2) )
    => /\ warnings = <<>>
       /\ IF plan.ran
          THEN /\ outcome = OutcomeFromPlan
               /\ CmdNames = ValidationCommands
                              \o [i \in DOMAIN CommandsFromPlan |-> CommandsFromPlan[i].args[1]]
               /\ \A i \in DOMAIN CommandsFromPlan :
                    cmds[Len(ValidationCommands) + i] = CommandsFromPlan[i]
          ELSE /\ CmdNames = ValidationCommands
               /\ IF InitRan /\ Failed(InitResult)
                  THEN outcome = Thrown(RunError(InitResult.exitCode, InitResult.timedOut))
                  ELSE /\ ThrewType("ConfigurationError")
                       /\ outcome.error = tfValidationError(outcome.error.detail.result)

\* An up-to-date stack, asked about without autoApply.
C29_Witness ==
    /\ PlanExited(0)
    /\ ~params.autoApply
    /\ pc = "done"
    /\ ReturnedStatus(TRUE)
    /\ Len(outcome.value.outputs) = 1
    /\ warnings = <<>>

\* ---- applyStack: the promise settles once ----

\* C30: once applyStack has resolved or rejected, its outcome stays: no
\* later event of the child (data, end, error, close) changes it.  It
\* resolves only when the child has closed, and when the child emits an
\* error event and closes afterwards, also with code 0, the call stays
\* rejected with the error of that event.
C30_SettlesOnce ==
    /\ [][( Applying /\ CallSettled ) => outcome' = outcome]_vars
    /\ []( ( Applying /\ outcome.kind = "return" ) => proc.closed /\ ~proc.errored )
    /\ []( ( Applying /\ proc.errored /\ proc.closed ) => outcome = Thrown(proc.error) )
    /\ []( ( Applying /\ proc.closed /\ ~proc.errored ) => outcome = OnClose(proc.code) )

\* An error event, then output on both streams, then close with code 0.
C30_Witness ==
    /\ Applying
    /\ proc.errored
    /\ proc.closed
    /\ proc.code = JsNum("0")
    /\ Emitted("stdout") # <<>>
    /\ Emitted("stderr") # <<>>
    /\ outcome = Thrown(proc.error)

\* ---- scanDirectory: what the consumer is given ----

IsPrefix(a, b) == Len(a) <= Len(b) /\ a = SubSeq(b, 1, Len(a))

\* The items the walker has emitted, the scanned directory left out.
EmittedItems == SelectSeq(scan.emitted, LAMBDA i : i.path # scan.path)

\* The items the consumer was given; the `undefined` that the end of the
\* walk resolves a pending promise with is no item.
Yielded == SelectSeq(scan.received, LAMBDA v : v # JsUndefined)

\* The values the generator has yielded, the one the consumer is about to
\* take included.
YieldedSoFar ==
    IF scan.consumer = "given" /\ scan.value # JsUndefined
    THEN Append(Yielded, scan.value) ELSE Yielded

ScanKeepsPace ==
    ( scan.started /\ scan.dropped = <<>> )
    => /\ IsPrefix(YieldedSoFar, EmittedItems)
       /\ scan.consumer = "finished" => scan.ended /\ Yielded = EmittedItems

\* A scan of three items that kept pace, finished.
ScanKeepsPace_Witness ==
    /\ scan.started
    /\ scan.consumer = "finished"
    /\ scan.dropped = <<>>
    /\ Len(Yielded) = 3

\* Two `data` events before the consumer asked again: the second item is
\* never given to the consumer.
ScanLosesItem ==
    /\ scan.started
    /\ scan.consumer = "finished"
    /\ ~scan.errored
    /\ Len(EmittedItems) = 2
    /\ Len(Yielded) = 1

====
